---------------------------- MODULE Spec2Model ----------------------------
(***************************************************************************)
(* A model of the GlossAI interpreter core: the scoped execution Context,  *)
(* the Lexer, the recursive-descent Parser, the tree-walking Evaluator and *)
(* the Interpreter that chains them in execute().                          *)
(*                                                                         *)
(* Text (std::string) is a sequence of one-character strings, so that      *)
(* lexing, concatenation and substring search are computed, not assumed.   *)
(***************************************************************************)
EXTENDS Integers, Sequences, FiniteSets, TLC

VARIABLES
    scopes,       \* Context::m_variableScopes, outermost (global) scope first
    functions,    \* Context::m_functions: name -> UserFunction
    hasReturned,  \* Evaluator::m_hasReturned
    lastError,    \* Interpreter::m_lastError
    call,         \* the last call made on the program and what it returned
    snap          \* per scope, the scopes below it as they were when it was pushed

vars == <<scopes, functions, hasReturned, lastError, call, snap>>

(***************************************************************************)
(* Bounds of the model.                                                    *)
(***************************************************************************)
MaxDepth == 3      \* deepest scope stack the client of Context builds
MaxNum == 4        \* largest magnitude of a number kept in a variable
MaxIter == 5       \* most iterations of one while loop that are followed

(***************************************************************************)
(* Text helpers.                                                           *)
(***************************************************************************)
Empty == << >>

RECURSIVE Concat(_)
Concat(ss) == IF ss = << >> THEN << >> ELSE Head(ss) \o Concat(Tail(ss))

\* the element of a set of one element; Only({f(x) : x \in {e}}) is f(e)
\* with e evaluated once
Only(S) == CHOOSE x \in S : TRUE

IsPrefixAt(s, sub, i) ==
    /\ i + Len(sub) - 1 <= Len(s)
    /\ \A k \in 1..Len(sub) : s[i + k - 1] = sub[k]

\* std::string::find(sub) != npos
Contains(s, sub) == \E i \in 1..(Len(s) + 1) : IsPrefixAt(s, sub, i)

(***************************************************************************)
(* Value (ast.h): a tagged union.  A Number is an exact fraction n/d in    *)
(* lowest terms with d > 0.                                                *)
(***************************************************************************)
Abs(x) == IF x < 0 THEN -x ELSE x

RECURSIVE Gcd(_, _)
Gcd(a, b) == IF b = 0 THEN a ELSE Gcd(b, a % b)

NullV == [t |-> "Null"]
BoolV(b) == [t |-> "Boolean", b |-> b]
StrV(s) == [t |-> "String", s |-> s]
Rat(n, d) ==
    LET g == Gcd(Abs(n), Abs(d))
        sgn == IF d < 0 THEN -1 ELSE 1
    IN  [t |-> "Number", n |-> sgn * (n \div g), d |-> sgn * (d \div g)]
NumV(n) == [t |-> "Number", n |-> n, d |-> 1]

(***************************************************************************)
(* Context (context.cpp).  A scope is a function from the names it binds   *)
(* to their values; a context is the scope stack and the function table.   *)
(***************************************************************************)
EmptyScope == [n \in {} |-> NullV]

Bind(scope, name, value) ==
    [n \in (DOMAIN scope) \cup {name} |-> IF n = name THEN value ELSE scope[n]]

Unbind(scope, name) == [n \in (DOMAIN scope) \ {name} |-> scope[n]]

Ctx(sc, fn) == [scopes |-> sc, functions |-> fn]

\* Context::pushScope
pushScope(ctx) == [ctx EXCEPT !.scopes = Append(@, EmptyScope)]

\* popScope without the size check: drops the global scope as well
popScopeUnguarded(ctx) ==
    [ctx EXCEPT !.scopes = SubSeq(@, 1, Len(@) - 1)]

\* Context::popScope ("Always keep at least the global scope")
popScope(ctx) ==
    IF Len(ctx.scopes) > 1
    THEN [ctx EXCEPT !.scopes = SubSeq(@, 1, Len(@) - 1)]
    ELSE ctx

\* Context::Context
NewContext == pushScope(Ctx(<< >>, EmptyScope))

\* setVariable that updates a binding where it is found, and only creates
\* new names in the innermost scope
setVariableWhereFound(ctx, name, value) ==
    LET found == CHOOSE i \in 0..Len(ctx.scopes) :
                    /\ i # 0 => name \in DOMAIN ctx.scopes[i]
                    /\ \A j \in (i + 1)..Len(ctx.scopes) : name \notin DOMAIN ctx.scopes[j]
                    /\ i = 0 => \A j \in 1..Len(ctx.scopes) : name \notin DOMAIN ctx.scopes[j]
        target == IF found = 0 THEN Len(ctx.scopes) ELSE found
    IN  IF ctx.scopes # << >>
        THEN [ctx EXCEPT !.scopes[target] = Bind(@, name, value)]
        ELSE ctx

\* Context::setVariable: writes the innermost scope
setVariable(ctx, name, value) ==
    IF ctx.scopes # << >>
    THEN [ctx EXCEPT !.scopes[Len(ctx.scopes)] = Bind(@, name, value)]
    ELSE ctx

\* Context::removeVariable: "Remove from current scope only"
removeVariable(ctx, name) ==
    IF ctx.scopes # << >>
    THEN [ctx EXCEPT !.scopes[Len(ctx.scopes)] = Unbind(@, name)]
    ELSE ctx

\* Context::findVariable: the reverse-iterator loop, from the scope at
\* index i down to the global scope; 0 stands for nullptr, otherwise the
\* index of the scope whose entry is pointed at.
RECURSIVE findFrom(_, _, _)
findFrom(sc, name, i) ==
    IF i = 0 THEN 0
    ELSE IF name \in DOMAIN sc[i] THEN i
    ELSE findFrom(sc, name, i - 1)

\* findVariable with a forward iterator: the global scope is searched first
findVariableOutermost(ctx, name) ==
    IF \E i \in 1..Len(ctx.scopes) : name \in DOMAIN ctx.scopes[i]
    THEN CHOOSE i \in 1..Len(ctx.scopes) :
            /\ name \in DOMAIN ctx.scopes[i]
            /\ \A j \in 1..(i - 1) : name \notin DOMAIN ctx.scopes[j]
    ELSE 0

findVariable(ctx, name) == findFrom(ctx.scopes, name, Len(ctx.scopes))

\* Context::getVariable
getVariable(ctx, name) ==
    LET var == findVariable(ctx, name)
    IN  IF var # 0 THEN ctx.scopes[var][name] ELSE NullV

\* Context::hasVariable
hasVariable(ctx, name) == findVariable(ctx, name) # 0

\* Context::setFunction
setFunction(ctx, name, function) ==
    [ctx EXCEPT !.functions = Bind(@, name, function)]

\* Context::getFunction ("Return empty function if not found")
getFunction(ctx, name) ==
    IF name \in DOMAIN ctx.functions
    THEN ctx.functions[name]
    ELSE [name |-> Empty, parameters |-> << >>, body |-> [k |-> "None"]]

\* Context::hasFunction
hasFunction(ctx, name) == name \in DOMAIN ctx.functions

\* Context::removeFunction
removeFunction(ctx, name) == [ctx EXCEPT !.functions = Unbind(@, name)]

\* Context::clear
\* a clear that forgets the function table
clearScopesOnly(ctx) == pushScope(Ctx(<< >>, ctx.functions))

clear(ctx) == pushScope(Ctx(<< >>, EmptyScope))

\* Context::getScopeDepth
getScopeDepth(ctx) == Len(ctx.scopes)

(***************************************************************************)
(* Lexer (lexer.cpp).  The lexer state L is m_position (1-based here),     *)
(* m_currentLine and m_currentColumn; m_currentChar is the character at    *)
(* the position, NUL past the end of the input.                            *)
(***************************************************************************)
NUL == "NUL"

LowerSeq == <<"a", "b", "c", "d", "e", "f", "g", "h", "i", "j", "k", "l", "m", "n", "o", "p", "q", "r", "s", "t", "u", "v", "w", "x", "y", "z">>
UpperSeq == <<"A", "B", "C", "D", "E", "F", "G", "H", "I", "J", "K", "L", "M", "N", "O", "P", "Q", "R", "S", "T", "U", "V", "W", "X", "Y", "Z">>
DigitSeq == <<"0", "1", "2", "3", "4", "5", "6", "7", "8", "9">>

Range(s) == {s[i] : i \in DOMAIN s}

\* Lexer::isDigit, Lexer::isAlpha, Lexer::isAlphaNumeric, std::isspace
isDigit(c) == c \in Range(DigitSeq)
isAlpha(c) == c \in Range(LowerSeq) \cup Range(UpperSeq)
isAlphaNumeric(c) == isAlpha(c) \/ isDigit(c)
isSpace(c) == c \in {" ", "\t", "\n", "\r", "\f"}

\* ::tolower on one character, and std::transform over a string
toLowerChar(c) ==
    IF c \in Range(UpperSeq)
    THEN LowerSeq[CHOOSE i \in DOMAIN UpperSeq : UpperSeq[i] = c]
    ELSE c
toLower(s) == [i \in DOMAIN s |-> toLowerChar(s[i])]

Token(type, value, line, column) ==
    [type |-> type, value |-> value, line |-> line, column |-> column]

LexStart == [pos |-> 1, line |-> 1, col |-> 1]

currentChar(input, L) == IF L.pos > Len(input) THEN NUL ELSE input[L.pos]

\* Lexer::advance
lexAdvance(input, L) ==
    IF currentChar(input, L) = "\n"
    THEN [pos |-> L.pos + 1, line |-> L.line + 1, col |-> 1]
    ELSE [pos |-> L.pos + 1, line |-> L.line, col |-> L.col + 1]

\* Lexer::skipWhitespace
RECURSIVE skipWhitespace(_, _)
skipWhitespace(input, L) ==
    IF isSpace(currentChar(input, L))
    THEN skipWhitespace(input, lexAdvance(input, L))
    ELSE L

\* Lexer::readNumber: a run of digits and dots
RECURSIVE numberRun(_, _, _)
numberRun(input, L, number) ==
    LET c == currentChar(input, L)
    IN  IF isDigit(c) \/ c = "."
        THEN numberRun(input, lexAdvance(input, L), Append(number, c))
        ELSE [text |-> number, L |-> L]

readNumber(input, L) ==
    LET r == numberRun(input, L, Empty)
    IN  [ok |-> TRUE, tok |-> Token("Number", r.text, L.line, L.col), L |-> r.L]

\* Lexer::readString: the loop after the opening quote has been skipped
RECURSIVE stringRun(_, _, _)
stringRun(input, L, value) ==
    LET c == currentChar(input, L)
    IN  IF c # "\"" /\ c # NUL
        THEN IF c = "\\"
             THEN LET L1 == lexAdvance(input, L)
                      e == currentChar(input, L1)
                      ch == CASE e = "n" -> "\n"
                              [] e = "t" -> "\t"
                              [] e = "r" -> "\r"
                              [] OTHER -> e
                  IN  stringRun(input, lexAdvance(input, L1), Append(value, ch))
             ELSE stringRun(input, lexAdvance(input, L), Append(value, c))
        ELSE [text |-> value, L |-> L]

T_Unterminated == <<"U", "n", "t", "e", "r", "m", "i", "n", "a", "t", "e", "d", " ", "s", "t", "r", "i", "n", "g", " ", "l", "i", "t", "e", "r", "a", "l">>

readString(input, L) ==
    LET r == stringRun(input, lexAdvance(input, L), Empty)
    IN  IF currentChar(input, r.L) = "\""
        THEN [ok |-> TRUE, tok |-> Token("String", r.text, L.line, L.col),
              L |-> lexAdvance(input, r.L)]
        ELSE [ok |-> FALSE, err |-> T_Unterminated]

\* Lexer::readIdentifier: the table of mathematical constants
constants ==
    [name \in {<<"p", "i">>, <<"e">>, <<"t", "a", "u">>, <<"p", "h", "i">>, <<"s", "q", "r", "t", "2">>, <<"s", "q", "r", "t", "3">>, <<"l", "n", "2">>, <<"l", "n", "1", "0">>} |->
        CASE name = <<"p", "i">> -> <<"3", ".", "1", "4", "1", "5", "9", "2", "6", "5", "3", "5", "8", "9", "7", "9", "3", "2", "3", "8", "4", "6">>
          [] name = <<"e">> -> <<"2", ".", "7", "1", "8", "2", "8", "1", "8", "2", "8", "4", "5", "9", "0", "4", "5", "2", "3", "5", "3", "6">>
          [] name = <<"t", "a", "u">> -> <<"6", ".", "2", "8", "3", "1", "8", "5", "3", "0", "7", "1", "7", "9", "5", "8", "6", "4", "7", "6", "9", "2">>
          [] name = <<"p", "h", "i">> -> <<"1", ".", "6", "1", "8", "0", "3", "3", "9", "8", "8", "7", "4", "9", "8", "9", "4", "8", "4", "8", "2", "0">>
          [] name = <<"s", "q", "r", "t", "2">> -> <<"1", ".", "4", "1", "4", "2", "1", "3", "5", "6", "2", "3", "7", "3", "0", "9", "5", "0", "4", "8", "8", "0">>
          [] name = <<"s", "q", "r", "t", "3">> -> <<"1", ".", "7", "3", "2", "0", "5", "0", "8", "0", "7", "5", "6", "8", "8", "7", "7", "2", "9", "3", "5", "3">>
          [] name = <<"l", "n", "2">> -> <<"0", ".", "6", "9", "3", "1", "4", "7", "1", "8", "0", "5", "5", "9", "9", "4", "5", "3", "0", "9", "4", "2">>
          [] name = <<"l", "n", "1", "0">> -> <<"2", ".", "3", "0", "2", "5", "8", "5", "0", "9", "2", "9", "9", "4", "0", "4", "5", "6", "8", "4", "0", "2">>]

\* Lexer::readIdentifier: the keyword table
keywords ==
    [name \in {<<"i", "f">>, <<"e", "l", "s", "e">>, <<"w", "h", "i", "l", "e">>, <<"f", "o", "r">>, <<"f", "u", "n", "c", "t", "i", "o", "n">>, <<"p", "r", "o", "c", "e", "d", "u", "r", "e">>,
               <<"r", "e", "t", "u", "r", "n">>, <<"p", "r", "i", "n", "t">>, <<"t", "r", "u", "e">>, <<"f", "a", "l", "s", "e">>, <<"a", "n", "d">>, <<"o", "r">>,
               <<"n", "o", "t">>, <<"m", "o", "d">>, <<"d", "i", "v">>} |->
        CASE name = <<"i", "f">> -> "If"
          [] name = <<"e", "l", "s", "e">> -> "Else"
          [] name = <<"w", "h", "i", "l", "e">> -> "While"
          [] name = <<"f", "o", "r">> -> "For"
          [] name = <<"f", "u", "n", "c", "t", "i", "o", "n">> -> "Function"
          [] name = <<"p", "r", "o", "c", "e", "d", "u", "r", "e">> -> "Procedure"
          [] name = <<"r", "e", "t", "u", "r", "n">> -> "Return"
          [] name = <<"p", "r", "i", "n", "t">> -> "Print"
          [] name = <<"t", "r", "u", "e">> -> "True"
          [] name = <<"f", "a", "l", "s", "e">> -> "False"
          [] name = <<"a", "n", "d">> -> "And"
          [] name = <<"o", "r">> -> "Or"
          [] name = <<"n", "o", "t">> -> "Not"
          [] name = <<"m", "o", "d">> -> "Mod"
          [] name = <<"d", "i", "v">> -> "Div"]

RECURSIVE identifierRun(_, _, _)
identifierRun(input, L, identifier) ==
    LET c == currentChar(input, L)
    IN  IF isAlphaNumeric(c) \/ c = "_"
        THEN identifierRun(input, lexAdvance(input, L), Append(identifier, c))
        ELSE [text |-> identifier, L |-> L]

\* an identifier reader without the table of constants
readIdentifierNoConstants(input, L) ==
    LET r == identifierRun(input, L, Empty)
    IN  [ok |-> TRUE, L |-> r.L,
         tok |-> Token(IF toLower(r.text) \in DOMAIN keywords
                       THEN keywords[toLower(r.text)] ELSE "Identifier",
                       r.text, L.line, L.col)]

readIdentifier(input, L) ==
    LET r == identifierRun(input, L, Empty)
        lowerIdentifier == toLower(r.text)
    IN  IF lowerIdentifier \in DOMAIN constants
        THEN [ok |-> TRUE, L |-> r.L,
              tok |-> Token("Number", constants[lowerIdentifier], L.line, L.col)]
        ELSE [ok |-> TRUE, L |-> r.L,
              tok |-> Token(IF lowerIdentifier \in DOMAIN keywords
                            THEN keywords[lowerIdentifier] ELSE "Identifier",
                            r.text, L.line, L.col)]

\* Lexer::readOperator: `current` is consumed, then the next character
\* decides between the one- and the two-character operators.
readOperator(input, L) ==
    LET current == currentChar(input, L)
        L1 == lexAdvance(input, L)
        next == currentChar(input, L1)
        L2 == lexAdvance(input, L1)
        one(type) == [ok |-> TRUE, L |-> L1,
                      tok |-> Token(type, <<current>>, L.line, L.col)]
        two(type) == [ok |-> TRUE, L |-> L2,
                      tok |-> Token(type, <<current, next>>, L.line, L.col)]
    IN  CASE current = "+" ->
                IF next = "+" THEN two("Increment")
                ELSE IF next = "=" THEN two("PlusAssign") ELSE one("Plus")
          [] current = "-" ->
                IF next = "-" THEN two("Decrement")
                ELSE IF next = "=" THEN two("MinusAssign") ELSE one("Minus")
          [] current = "*" ->
                IF next = "*" THEN two("Power")
                ELSE IF next = "=" THEN two("MultiplyAssign") ELSE one("Multiply")
          [] current = "/" -> IF next = "=" THEN two("DivideAssign") ELSE one("Divide")
          [] current = "^" -> one("Power")
          [] current = "%" -> one("Mod")
          [] current = "=" -> IF next = "=" THEN two("Equal") ELSE one("Assign")
          [] current = "!" -> IF next = "=" THEN two("NotEqual") ELSE one("Not")
          [] current = "<" -> IF next = "=" THEN two("LessEqual") ELSE one("Less")
          [] current = ">" -> IF next = "=" THEN two("GreaterEqual") ELSE one("Greater")
          [] current = "(" -> one("LeftParen")
          [] current = ")" -> one("RightParen")
          [] current = "{" -> one("LeftBrace")
          [] current = "}" -> one("RightBrace")
          [] current = "," -> one("Comma")
          [] current = ";" -> one("Semicolon")
          [] OTHER -> one("Invalid")

\* Lexer::tokenize: the main loop, then the EndOfFile token
RECURSIVE tokenizeLoop(_, _, _)
tokenizeLoop(input, L, tokens) ==
    LET c == currentChar(input, L)
    IN  IF c = NUL
        THEN [ok |-> TRUE,
              tokens |-> Append(tokens, Token("EndOfFile", Empty, L.line, L.col))]
        ELSE IF isSpace(c)
        THEN tokenizeLoop(input, skipWhitespace(input, L), tokens)
        ELSE LET r == IF isDigit(c) THEN readNumber(input, L)
                      ELSE IF c = "\"" \/ c = "'" THEN readString(input, L)
                      ELSE IF isAlpha(c) \/ c = "_" THEN readIdentifier(input, L)
                      ELSE readOperator(input, L)
             IN  IF r.ok
                 THEN tokenizeLoop(input, r.L, Append(tokens, r.tok))
                 ELSE [ok |-> FALSE, err |-> r.err]

\* a tokenizer that leaves out the closing EndOfFile token
tokenizeNoEnd(input) ==
    Only({IF r.ok
          THEN [ok |-> TRUE, tokens |-> SubSeq(r.tokens, 1, Len(r.tokens) - 1)]
          ELSE r : r \in {tokenizeLoop(input, LexStart, << >>)}})

tokenize(input) == tokenizeLoop(input, LexStart, << >>)

(***************************************************************************)
(* AST (ast.h).  A node is a record tagged by its class in field k; a null *)
(* child pointer is NoNode.                                                *)
(***************************************************************************)
NoNode == [k |-> "None"]
LiteralNode(value) == [k |-> "Literal", value |-> value]
IdentifierNode(name) == [k |-> "Identifier", name |-> name]
BinaryOpNode(left, op, right) ==
    [k |-> "BinaryOp", left |-> left, op |-> op, right |-> right]
UnaryOpNode(op, operand) == [k |-> "UnaryOp", op |-> op, operand |-> operand]
FunctionCallNode(function, arguments) ==
    [k |-> "FunctionCall", function |-> function, arguments |-> arguments]
IfNode(condition, thenBranch, elseBranch) ==
    [k |-> "If", condition |-> condition, thenBranch |-> thenBranch,
     elseBranch |-> elseBranch]
WhileNode(condition, body) == [k |-> "While", condition |-> condition, body |-> body]
ForNode(init, condition, update, body) ==
    [k |-> "For", init |-> init, condition |-> condition, update |-> update,
     body |-> body]
BlockNode(statements) == [k |-> "Block", statements |-> statements]
FunctionDefNode(name, parameters, body) ==
    [k |-> "FunctionDef", name |-> name, parameters |-> parameters, body |-> body]
ReturnNode(value) == [k |-> "Return", value |-> value]
PrintNode(expressions) == [k |-> "Print", expressions |-> expressions]

(***************************************************************************)
(* Results of the operations that can throw: ok with what was computed, or *)
(* not ok with the exception's what().  OutOfModel is not an exception of  *)
(* the program: it marks a computation that leaves the bounds of the model *)
(* (a number too large, a loop followed for too long); the actions do not  *)
(* take such calls.                                                        *)
(***************************************************************************)
OutOfModel == <<"out of model">>
Throw(msg) == [ok |-> FALSE, err |-> msg]

(***************************************************************************)
(* std::stod on the text of a Number token: the integer digits, then, if a *)
(* dot follows, the fraction digits up to the next character that is not a *)
(* digit.  A number of more than MaxDigits digits is a value outside the   *)
(* model: it can be parsed and stored in a literal, but not computed with. *)
(***************************************************************************)
MaxDigits == 3

digitValue(c) == (CHOOSE i \in DOMAIN DigitSeq : DigitSeq[i] = c) - 1

RECURSIVE digitsLen(_, _)
digitsLen(s, i) == IF i <= Len(s) /\ isDigit(s[i]) THEN 1 + digitsLen(s, i + 1) ELSE 0

RECURSIVE digitsValue(_, _, _)
digitsValue(s, i, n) == IF n = 0 THEN 0 ELSE digitsValue(s, i, n - 1) * 10 + digitValue(s[i + n - 1])

RECURSIVE Pow10(_)
Pow10(k) == IF k = 0 THEN 1 ELSE 10 * Pow10(k - 1)

stod(s) ==
    LET ni == digitsLen(s, 1)
        nf == IF ni + 1 <= Len(s) /\ s[ni + 1] = "." THEN digitsLen(s, ni + 2) ELSE 0
    IN  IF ni + nf > MaxDigits
        THEN [ok |-> TRUE, value |-> [t |-> "OutOfModel"]]
        ELSE [ok |-> TRUE,
              value |-> Rat(digitsValue(s, 1, ni) * Pow10(nf) + digitsValue(s, ni + 2, nf),
                            Pow10(nf))]

(***************************************************************************)
(* Parser (parser.cpp).  The parser state is the token vector and          *)
(* m_current (1-based here).  A grammar rule returns the node it built and *)
(* the position after it, or the exception it threw.                       *)
(***************************************************************************)
Parsed(node, pos) == [ok |-> TRUE, node |-> node, pos |-> pos]

\* Parser::currentToken
currentToken(tokens, pos) ==
    IF pos > Len(tokens) THEN Token("EndOfFile", Empty, 0, 0) ELSE tokens[pos]

\* Parser::isAtEnd
isAtEnd(tokens, pos) == pos > Len(tokens) \/ tokens[pos].type = "EndOfFile"

\* Parser::advance
advance(tokens, pos) == IF ~isAtEnd(tokens, pos) THEN pos + 1 ELSE pos

\* Parser::consume: the position after the token, or the exception
consume(tokens, pos, type, errorMessage) ==
    IF currentToken(tokens, pos).type = type
    THEN [ok |-> TRUE, pos |-> advance(tokens, pos)]
    ELSE Throw(errorMessage)

T_UnexpectedToken == <<"U", "n", "e", "x", "p", "e", "c", "t", "e", "d", " ", "t", "o", "k", "e", "n", ":", " ">>
T_ExpectedRParenArgs == <<"E", "x", "p", "e", "c", "t", "e", "d", " ", "'", ")", "'", " ", "a", "f", "t", "e", "r", " ", "f", "u", "n", "c", "t", "i", "o", "n", " ", "a", "r", "g", "u", "m", "e", "n", "t", "s">>
T_ExpectedRParenExpr == <<"E", "x", "p", "e", "c", "t", "e", "d", " ", "'", ")", "'", " ", "a", "f", "t", "e", "r", " ", "e", "x", "p", "r", "e", "s", "s", "i", "o", "n">>
T_ExpectedIf == <<"E", "x", "p", "e", "c", "t", "e", "d", " ", "'", "i", "f", "'">>
T_ExpectedLParenIf == <<"E", "x", "p", "e", "c", "t", "e", "d", " ", "'", "(", "'", " ", "a", "f", "t", "e", "r", " ", "'", "i", "f", "'">>
T_ExpectedRParenIf == <<"E", "x", "p", "e", "c", "t", "e", "d", " ", "'", ")", "'", " ", "a", "f", "t", "e", "r", " ", "i", "f", " ", "c", "o", "n", "d", "i", "t", "i", "o", "n">>
T_ExpectedElse == <<"E", "x", "p", "e", "c", "t", "e", "d", " ", "'", "e", "l", "s", "e", "'", " ", "i", "n", " ", "i", "f", " ", "e", "x", "p", "r", "e", "s", "s", "i", "o", "n">>
T_ExpectedWhile == <<"E", "x", "p", "e", "c", "t", "e", "d", " ", "'", "w", "h", "i", "l", "e", "'">>
T_ExpectedLParenWhile == <<"E", "x", "p", "e", "c", "t", "e", "d", " ", "'", "(", "'", " ", "a", "f", "t", "e", "r", " ", "'", "w", "h", "i", "l", "e", "'">>
T_ExpectedRParenWhile == <<"E", "x", "p", "e", "c", "t", "e", "d", " ", "'", ")", "'", " ", "a", "f", "t", "e", "r", " ", "w", "h", "i", "l", "e", " ", "c", "o", "n", "d", "i", "t", "i", "o", "n">>
T_ExpectedPrint == <<"E", "x", "p", "e", "c", "t", "e", "d", " ", "'", "p", "r", "i", "n", "t", "'">>
T_ExpectedLBrace == <<"E", "x", "p", "e", "c", "t", "e", "d", " ", "'", "{", "'">>
T_ExpectedRBrace == <<"E", "x", "p", "e", "c", "t", "e", "d", " ", "'", "}", "'">>
T_ExpectedLParenFor == <<"E", "x", "p", "e", "c", "t", "e", "d", " ", "'", "(", "'", " ", "a", "f", "t", "e", "r", " ", "'", "f", "o", "r", "'">>
T_ExpectedSemiInit == <<"E", "x", "p", "e", "c", "t", "e", "d", " ", "'", ";", "'", " ", "a", "f", "t", "e", "r", " ", "f", "o", "r", " ", "l", "o", "o", "p", " ", "i", "n", "i", "t", "i", "a", "l", "i", "z", "e", "r">>
T_ExpectedSemiCond == <<"E", "x", "p", "e", "c", "t", "e", "d", " ", "'", ";", "'", " ", "a", "f", "t", "e", "r", " ", "f", "o", "r", " ", "l", "o", "o", "p", " ", "c", "o", "n", "d", "i", "t", "i", "o", "n">>
T_ExpectedRParenFor == <<"E", "x", "p", "e", "c", "t", "e", "d", " ", "'", ")", "'", " ", "a", "f", "t", "e", "r", " ", "f", "o", "r", " ", "l", "o", "o", "p", " ", "c", "l", "a", "u", "s", "e", "s">>
T_ExpectedFuncName == <<"E", "x", "p", "e", "c", "t", "e", "d", " ", "f", "u", "n", "c", "t", "i", "o", "n", " ", "n", "a", "m", "e">>
T_ExpectedLParenFunc == <<"E", "x", "p", "e", "c", "t", "e", "d", " ", "'", "(", "'", " ", "a", "f", "t", "e", "r", " ", "f", "u", "n", "c", "t", "i", "o", "n", " ", "n", "a", "m", "e">>
T_ExpectedParam == <<"E", "x", "p", "e", "c", "t", "e", "d", " ", "p", "a", "r", "a", "m", "e", "t", "e", "r", " ", "n", "a", "m", "e">>
T_ExpectedRParenParams == <<"E", "x", "p", "e", "c", "t", "e", "d", " ", "'", ")", "'", " ", "a", "f", "t", "e", "r", " ", "p", "a", "r", "a", "m", "e", "t", "e", "r", "s">>

AssignOps == {"Assign", "PlusAssign", "MinusAssign", "MultiplyAssign", "DivideAssign"}

RECURSIVE parseStatement(_, _), parseExpression(_, _), parseAssignment(_, _),
          parseLogicalOr(_, _), orLoop(_, _), parseLogicalAnd(_, _),
          andLoop(_, _), parseEquality(_, _), equalityLoop(_, _),
          parseComparison(_, _), comparisonLoop(_, _), parseTerm(_, _),
          termLoop(_, _), parseFactor(_, _), factorLoop(_, _),
          parseUnary(_, _), parsePostfix(_, _), parsePower(_, _),
          parseCall(_, _), callLoop(_, _), callArguments(_, _, _), argumentList(_, _, _),
          parsePrimary(_, _), parseIfStatement(_, _), parseIfExpression(_, _),
          parseWhileStatement(_, _), parseForStatement(_, _),
          parsePrintStatement(_, _), printLoop(_, _, _), parseBlock(_, _),
          blockLoop(_, _, _), parseFunctionDeclaration(_, _),
          parameterList(_, _, _), parseReturnStatement(_, _)

\* Parser::parseStatement
parseStatement(tokens, pos) ==
    IF currentToken(tokens, pos).type = "If" THEN parseIfStatement(tokens, pos)
    ELSE IF currentToken(tokens, pos).type = "While" THEN parseWhileStatement(tokens, pos)
    ELSE IF currentToken(tokens, pos).type = "Print" THEN parsePrintStatement(tokens, pos)
    ELSE IF currentToken(tokens, pos).type = "LeftBrace" THEN parseBlock(tokens, pos)
    ELSE parseExpression(tokens, pos)

\* Parser::parseExpression
parseExpression(tokens, pos) == parseAssignment(tokens, pos)

\* a binary node of left and right, or the failure of right
Binary(left, op, right) ==
    IF ~right.ok THEN right ELSE Parsed(BinaryOpNode(left, op, right.node), right.pos)

\* Parser::parseAssignment
parseAssignment(tokens, pos) ==
    Only({IF ~expr.ok THEN expr
          ELSE IF currentToken(tokens, expr.pos).type \in AssignOps
          THEN Binary(expr.node, currentToken(tokens, expr.pos).type,
                      parseAssignment(tokens, advance(tokens, expr.pos)))
          ELSE expr
          : expr \in {parseLogicalOr(tokens, pos)}})

\* Parser::parseLogicalOr: orLoop is the while loop, entered with the
\* operand parsed last
orLoop(tokens, expr) ==
    IF ~expr.ok THEN expr
    ELSE IF currentToken(tokens, expr.pos).type = "Or"
    THEN orLoop(tokens, Binary(expr.node, "Or",
                               parseLogicalAnd(tokens, advance(tokens, expr.pos))))
    ELSE expr

parseLogicalOr(tokens, pos) == orLoop(tokens, parseLogicalAnd(tokens, pos))

\* Parser::parseLogicalAnd
andLoop(tokens, expr) ==
    IF ~expr.ok THEN expr
    ELSE IF currentToken(tokens, expr.pos).type = "And"
    THEN andLoop(tokens, Binary(expr.node, "And",
                                parseEquality(tokens, advance(tokens, expr.pos))))
    ELSE expr

parseLogicalAnd(tokens, pos) == andLoop(tokens, parseEquality(tokens, pos))

\* Parser::parseEquality
equalityLoop(tokens, expr) ==
    IF ~expr.ok THEN expr
    ELSE IF currentToken(tokens, expr.pos).type \in {"Equal", "NotEqual"}
    THEN equalityLoop(tokens, Binary(expr.node, currentToken(tokens, expr.pos).type,
                                     parseComparison(tokens, advance(tokens, expr.pos))))
    ELSE expr

parseEquality(tokens, pos) == equalityLoop(tokens, parseComparison(tokens, pos))

\* Parser::parseComparison
comparisonLoop(tokens, expr) ==
    IF ~expr.ok THEN expr
    ELSE IF currentToken(tokens, expr.pos).type
                \in {"Less", "Greater", "LessEqual", "GreaterEqual"}
    THEN comparisonLoop(tokens, Binary(expr.node, currentToken(tokens, expr.pos).type,
                                       parseTerm(tokens, advance(tokens, expr.pos))))
    ELSE expr

parseComparison(tokens, pos) == comparisonLoop(tokens, parseTerm(tokens, pos))

\* Parser::parseTerm
termLoop(tokens, expr) ==
    IF ~expr.ok THEN expr
    ELSE IF currentToken(tokens, expr.pos).type \in {"Plus", "Minus"}
    THEN termLoop(tokens,
                  Binary(expr.node,
                         IF currentToken(tokens, expr.pos).type = "Plus"
                         THEN "Add" ELSE "Subtract",
                         parseFactor(tokens, advance(tokens, expr.pos))))
    ELSE expr

parseTerm(tokens, pos) == termLoop(tokens, parseFactor(tokens, pos))

\* Parser::parseFactor
factorLoop(tokens, expr) ==
    IF ~expr.ok THEN expr
    ELSE IF currentToken(tokens, expr.pos).type \in {"Multiply", "Divide", "Mod", "Div"}
    THEN factorLoop(tokens, Binary(expr.node, currentToken(tokens, expr.pos).type,
                                   parseUnary(tokens, advance(tokens, expr.pos))))
    ELSE expr

parseFactor(tokens, pos) == factorLoop(tokens, parseUnary(tokens, pos))

\* a unary node of expr, or the failure of expr
Unary(op, expr) ==
    IF ~expr.ok THEN expr ELSE Parsed(UnaryOpNode(op, expr.node), expr.pos)

\* Parser::parseUnary
parseUnary(tokens, pos) ==
    IF currentToken(tokens, pos).type \in {"Minus", "Not", "Increment", "Decrement"}
    THEN Unary(CASE currentToken(tokens, pos).type = "Minus" -> "Negate"
                 [] currentToken(tokens, pos).type = "Not" -> "Not"
                 [] currentToken(tokens, pos).type = "Increment" -> "PreIncrement"
                 [] currentToken(tokens, pos).type = "Decrement" -> "PreDecrement",
               parseUnary(tokens, advance(tokens, pos)))
    ELSE parsePostfix(tokens, pos)

\* Parser::parsePostfix
parsePostfix(tokens, pos) ==
    Only({IF ~expr.ok THEN expr
          ELSE IF currentToken(tokens, expr.pos).type = "Increment"
          THEN Parsed(UnaryOpNode("PostIncrement", expr.node), advance(tokens, expr.pos))
          ELSE IF currentToken(tokens, expr.pos).type = "Decrement"
          THEN Parsed(UnaryOpNode("PostDecrement", expr.node), advance(tokens, expr.pos))
          ELSE expr
          : expr \in {parsePower(tokens, pos)}})

\* a power whose exponent is read as a call expression
parsePowerFlat(tokens, pos) ==
    Only({IF ~expr.ok THEN expr
          ELSE IF currentToken(tokens, expr.pos).type = "Power"
          THEN Binary(expr.node, "Power", parseCall(tokens, advance(tokens, expr.pos)))
          ELSE expr
          : expr \in {parseCall(tokens, pos)}})

\* Parser::parsePower
parsePower(tokens, pos) ==
    Only({IF ~expr.ok THEN expr
          ELSE IF currentToken(tokens, expr.pos).type = "Power"
          THEN Binary(expr.node, "Power", parseUnary(tokens, advance(tokens, expr.pos)))
          ELSE expr
          : expr \in {parseCall(tokens, pos)}})

\* The argument loops of parseCall and parsePrimary: expressions separated
\* by commas, entered when the current token is not ')'.  node is the
\* vector of arguments.
argumentList(tokens, args, pos) ==
    Only({IF ~arg.ok THEN arg
          ELSE IF currentToken(tokens, arg.pos).type = "Comma"
          THEN argumentList(tokens, Append(args, arg.node), advance(tokens, arg.pos))
          ELSE Parsed(Append(args, arg.node), arg.pos)
          : arg \in {parseExpression(tokens, pos)}})

\* the arguments from pos, which follows '(', up to ')', and the call of
\* callee with them
callArguments(tokens, callee, pos) ==
    Only({IF ~arguments.ok THEN arguments
          ELSE Only({IF ~close.ok THEN close
                     ELSE Parsed(FunctionCallNode(callee, arguments.node), close.pos)
                     : close \in {consume(tokens, arguments.pos, "RightParen",
                                          T_ExpectedRParenArgs)}})
          : arguments \in {IF currentToken(tokens, pos).type # "RightParen"
                           THEN argumentList(tokens, << >>, pos)
                           ELSE Parsed(<< >>, pos)}})

\* Parser::parseCall
callLoop(tokens, expr) ==
    IF ~expr.ok THEN expr
    ELSE IF currentToken(tokens, expr.pos).type = "LeftParen"
    THEN callLoop(tokens, callArguments(tokens, expr.node, advance(tokens, expr.pos)))
    ELSE expr

parseCall(tokens, pos) == callLoop(tokens, parsePrimary(tokens, pos))

\* what follows the expression of a parenthesised primary
closeGroup(tokens, expr) ==
    IF ~expr.ok THEN expr
    ELSE Only({IF ~close.ok THEN close ELSE Parsed(expr.node, close.pos)
               : close \in {consume(tokens, expr.pos, "RightParen", T_ExpectedRParenExpr)}})

\* the literal of a Number token
numberLiteral(d, pos) == IF ~d.ok THEN d ELSE Parsed(LiteralNode(d.value), pos)

\* Parser::parsePrimary
parsePrimary(tokens, pos) ==
    CASE currentToken(tokens, pos).type = "Number" ->
            numberLiteral(stod(currentToken(tokens, pos).value), advance(tokens, pos))
      [] currentToken(tokens, pos).type = "String" ->
            Parsed(LiteralNode(StrV(currentToken(tokens, pos).value)), advance(tokens, pos))
      [] currentToken(tokens, pos).type = "Identifier" ->
            IF currentToken(tokens, advance(tokens, pos)).type = "LeftParen"
            THEN callArguments(tokens, IdentifierNode(currentToken(tokens, pos).value),
                               advance(tokens, advance(tokens, pos)))
            ELSE Parsed(IdentifierNode(currentToken(tokens, pos).value),
                        advance(tokens, pos))
      [] currentToken(tokens, pos).type = "If" ->
            parseIfExpression(tokens, advance(tokens, pos))
      [] currentToken(tokens, pos).type = "LeftParen" ->
            closeGroup(tokens, parseExpression(tokens, advance(tokens, pos)))
      [] OTHER -> Throw(T_UnexpectedToken \o currentToken(tokens, pos).value)

\* In the statement parsers below each step is bound by
\* Only({... : step \in {...}}), so the steps read from the last line up.

\* Parser::parseIfStatement
parseIfStatement(tokens, pos) ==
    Only({IF ~c1.ok THEN c1 ELSE
    Only({IF ~c2.ok THEN c2 ELSE
    Only({IF ~condition.ok THEN condition ELSE
    Only({IF ~c3.ok THEN c3 ELSE
    Only({IF ~thenBranch.ok THEN thenBranch
          ELSE IF currentToken(tokens, thenBranch.pos).type = "Else"
          THEN Only({IF ~elseBranch.ok THEN elseBranch
                     ELSE Parsed(IfNode(condition.node, thenBranch.node, elseBranch.node),
                                 elseBranch.pos)
                     : elseBranch \in {parseStatement(tokens,
                                                      advance(tokens, thenBranch.pos))}})
          ELSE Parsed(IfNode(condition.node, thenBranch.node, NoNode), thenBranch.pos)
          : thenBranch \in {parseStatement(tokens, c3.pos)}})
          : c3 \in {consume(tokens, condition.pos, "RightParen", T_ExpectedRParenIf)}})
          : condition \in {parseExpression(tokens, c2.pos)}})
          : c2 \in {consume(tokens, c1.pos, "LeftParen", T_ExpectedLParenIf)}})
          : c1 \in {consume(tokens, pos, "If", T_ExpectedIf)}})

\* Parser::parseIfExpression ('if' has been consumed by the caller)
parseIfExpression(tokens, pos) ==
    Only({IF ~c1.ok THEN c1 ELSE
    Only({IF ~condition.ok THEN condition ELSE
    Only({IF ~c2.ok THEN c2 ELSE
    Only({IF ~thenBranch.ok THEN thenBranch ELSE
    Only({IF ~c3.ok THEN c3 ELSE
    Only({IF ~elseBranch.ok THEN elseBranch
          ELSE Parsed(IfNode(condition.node, thenBranch.node, elseBranch.node),
                      elseBranch.pos)
          : elseBranch \in {IF currentToken(tokens, c3.pos).type = "If"
                            THEN parseIfExpression(tokens, advance(tokens, c3.pos))
                            ELSE parseExpression(tokens, c3.pos)}})
          : c3 \in {consume(tokens, thenBranch.pos, "Else", T_ExpectedElse)}})
          : thenBranch \in {parseExpression(tokens, c2.pos)}})
          : c2 \in {consume(tokens, condition.pos, "RightParen", T_ExpectedRParenIf)}})
          : condition \in {parseExpression(tokens, c1.pos)}})
          : c1 \in {consume(tokens, pos, "LeftParen", T_ExpectedLParenIf)}})

\* Parser::parseWhileStatement
parseWhileStatement(tokens, pos) ==
    Only({IF ~c1.ok THEN c1 ELSE
    Only({IF ~c2.ok THEN c2 ELSE
    Only({IF ~condition.ok THEN condition ELSE
    Only({IF ~c3.ok THEN c3 ELSE
    Only({IF ~body.ok THEN body
          ELSE Parsed(WhileNode(condition.node, body.node), body.pos)
          : body \in {parseStatement(tokens, c3.pos)}})
          : c3 \in {consume(tokens, condition.pos, "RightParen", T_ExpectedRParenWhile)}})
          : condition \in {parseExpression(tokens, c2.pos)}})
          : c2 \in {consume(tokens, c1.pos, "LeftParen", T_ExpectedLParenWhile)}})
          : c1 \in {consume(tokens, pos, "While", T_ExpectedWhile)}})

\* Parser::parseForStatement (no grammar rule calls it)
parseForStatement(tokens, pos) ==
    Only({IF ~c1.ok THEN c1 ELSE
    Only({IF ~init.ok THEN init ELSE
    Only({IF ~c2.ok THEN c2 ELSE
    Only({IF ~condition.ok THEN condition ELSE
    Only({IF ~c3.ok THEN c3 ELSE
    Only({IF ~update.ok THEN update ELSE
    Only({IF ~c4.ok THEN c4 ELSE
    Only({IF ~body.ok THEN body
          ELSE Parsed(ForNode(init.node, condition.node, update.node, body.node),
                      body.pos)
          : body \in {parseStatement(tokens, c4.pos)}})
          : c4 \in {consume(tokens, update.pos, "RightParen", T_ExpectedRParenFor)}})
          : update \in {parseExpression(tokens, c3.pos)}})
          : c3 \in {consume(tokens, condition.pos, "Semicolon", T_ExpectedSemiCond)}})
          : condition \in {parseExpression(tokens, c2.pos)}})
          : c2 \in {consume(tokens, init.pos, "Semicolon", T_ExpectedSemiInit)}})
          : init \in {parseStatement(tokens, c1.pos)}})
          : c1 \in {consume(tokens, pos, "LeftParen", T_ExpectedLParenFor)}})

\* Parser::parsePrintStatement: the do-while over the comma-separated
\* expressions, which also ends when a comma is followed by the end of input
printLoop(tokens, expressions, pos) ==
    Only({IF ~expr.ok THEN expr
          ELSE IF currentToken(tokens, expr.pos).type = "Comma"
          THEN IF currentToken(tokens, advance(tokens, expr.pos)).type # "EndOfFile"
               THEN printLoop(tokens, Append(expressions, expr.node),
                              advance(tokens, expr.pos))
               ELSE Parsed(Append(expressions, expr.node), advance(tokens, expr.pos))
          ELSE Parsed(Append(expressions, expr.node), expr.pos)
          : expr \in {parseExpression(tokens, pos)}})

parsePrintStatement(tokens, pos) ==
    Only({IF ~c1.ok THEN c1 ELSE
    Only({IF ~expressions.ok THEN expressions
          ELSE Parsed(PrintNode(expressions.node), expressions.pos)
          : expressions \in {printLoop(tokens, << >>, c1.pos)}})
          : c1 \in {consume(tokens, pos, "Print", T_ExpectedPrint)}})

\* Parser::parseBlock
blockLoop(tokens, statements, pos) ==
    IF currentToken(tokens, pos).type \notin {"RightBrace", "EndOfFile"}
    THEN Only({IF ~statement.ok THEN statement
               ELSE blockLoop(tokens, Append(statements, statement.node),
                              IF currentToken(tokens, statement.pos).type = "Semicolon"
                              THEN advance(tokens, statement.pos)
                              ELSE statement.pos)
               : statement \in {parseStatement(tokens, pos)}})
    ELSE Parsed(statements, pos)

parseBlock(tokens, pos) ==
    Only({IF ~c1.ok THEN c1 ELSE
    Only({IF ~statements.ok THEN statements ELSE
    Only({IF ~c2.ok THEN c2 ELSE Parsed(BlockNode(statements.node), c2.pos)
          : c2 \in {consume(tokens, statements.pos, "RightBrace", T_ExpectedRBrace)}})
          : statements \in {blockLoop(tokens, << >>, c1.pos)}})
          : c1 \in {consume(tokens, pos, "LeftBrace", T_ExpectedLBrace)}})

\* Parser::parseFunctionDeclaration (no grammar rule calls it)
parameterList(tokens, parameters, pos) ==
    Only({IF ~c1.ok THEN c1
          ELSE IF currentToken(tokens, c1.pos).type = "Comma"
          THEN parameterList(tokens, Append(parameters, tokens[c1.pos - 1].value),
                             advance(tokens, c1.pos))
          ELSE Parsed(Append(parameters, tokens[c1.pos - 1].value), c1.pos)
          : c1 \in {consume(tokens, pos, "Identifier", T_ExpectedParam)}})

parseFunctionDeclaration(tokens, pos) ==
    Only({IF ~c1.ok THEN c1 ELSE
    Only({IF ~c2.ok THEN c2 ELSE
    Only({IF ~parameters.ok THEN parameters ELSE
    Only({IF ~c3.ok THEN c3 ELSE
    Only({IF ~body.ok THEN body
          ELSE Parsed(FunctionDefNode(tokens[c1.pos - 1].value, parameters.node,
                                      body.node), body.pos)
          : body \in {parseStatement(tokens, c3.pos)}})
          : c3 \in {consume(tokens, parameters.pos, "RightParen", T_ExpectedRParenParams)}})
          : parameters \in {IF currentToken(tokens, c2.pos).type # "RightParen"
                            THEN parameterList(tokens, << >>, c2.pos)
                            ELSE Parsed(<< >>, c2.pos)}})
          : c2 \in {consume(tokens, c1.pos, "LeftParen", T_ExpectedLParenFunc)}})
          : c1 \in {consume(tokens, pos, "Identifier", T_ExpectedFuncName)}})

\* Parser::parseReturnStatement (no grammar rule calls it)
parseReturnStatement(tokens, pos) ==
    IF currentToken(tokens, pos).type # "Semicolon" /\ ~isAtEnd(tokens, pos)
    THEN Only({IF ~value.ok THEN value ELSE Parsed(ReturnNode(value.node), value.pos)
               : value \in {parseExpression(tokens, pos)}})
    ELSE Parsed(ReturnNode(NoNode), pos)

\* Parser::parse: the AST of the statement at the start of the tokens, or
\* nullptr (ok = FALSE) with the message kept in Parser::m_lastError
parse(tokens) == parseStatement(tokens, 1)

(***************************************************************************)
(* Value operations (ast.cpp).  A double is modelled by the exact fraction *)
(* it approximates; NaV stands for a value the model does not represent    *)
(* (beyond NumLimit, irrational, printed in scientific notation) and every *)
(* operation propagates it.                                                *)
(***************************************************************************)
NumLimit == 10000
NaV == [t |-> "OutOfModel"]

InModel(v) == v.t # "OutOfModel"
Norm(v) == IF Abs(v.n) <= NumLimit /\ v.d <= NumLimit THEN v ELSE NaV

IsInteger(v) == v.d = 1
NumLess(a, b) == a.n * b.d < b.n * a.d
NumAdd(a, b) == Norm(Rat(a.n * b.d + b.n * a.d, a.d * b.d))
NumSub(a, b) == Norm(Rat(a.n * b.d - b.n * a.d, a.d * b.d))
NumMul(a, b) == Norm(Rat(a.n * b.n, a.d * b.d))
NumDiv(a, b) == Norm(Rat(a.n * b.d, a.d * b.n))         \* b # 0
\* std::trunc
NumTrunc(a) == NumV((IF a.n < 0 THEN -1 ELSE 1) * (Abs(a.n) \div a.d))

\* std::stod on the text of a String value, for Value::toNumber: leading
\* spaces and one sign are skipped; a text with no number in front makes
\* stod throw, which toNumber turns into 0.  Exponents, hexadecimal forms,
\* inf and nan are not represented.
RECURSIVE skipSpaces(_, _)
skipSpaces(s, i) == IF i <= Len(s) /\ isSpace(s[i]) THEN skipSpaces(s, i + 1) ELSE i

stringToNumber(s) ==
    LET i0 == skipSpaces(s, 1)
        neg == i0 <= Len(s) /\ s[i0] = "-"
        i1 == IF i0 <= Len(s) /\ s[i0] \in {"+", "-"} THEN i0 + 1 ELSE i0
        rest == SubSeq(s, i1, Len(s))
        ni == digitsLen(rest, 1)
        nf == IF ni + 1 <= Len(rest) /\ rest[ni + 1] = "." THEN digitsLen(rest, ni + 2) ELSE 0
        after == ni + (IF ni + 1 <= Len(rest) /\ rest[ni + 1] = "." THEN 1 ELSE 0) + nf + 1
    IN  IF ni + nf = 0
        THEN IF rest # << >> /\ toLowerChar(rest[1]) \in {"i", "n"} THEN NaV ELSE NumV(0)
        ELSE IF after <= Len(rest) /\ toLowerChar(rest[after]) = "e" THEN NaV
        ELSE IF Len(rest) >= 2 /\ rest[1] = "0" /\ toLowerChar(rest[2]) = "x" THEN NaV
        ELSE LET d == stod(rest)
             IN  IF ~d.ok \/ ~InModel(d.value) THEN NaV
                 ELSE IF neg THEN Rat(-d.value.n, d.value.d) ELSE d.value

\* Value::toNumber
toNumber(v) ==
    CASE v.t = "Number" -> v
      [] v.t = "Boolean" -> IF v.b THEN NumV(1) ELSE NumV(0)
      [] v.t = "String" -> stringToNumber(v.s)
      [] v.t = "Null" -> NumV(0)
      [] OTHER -> NaV

\* a coercion that takes every value for true
toBoolAlways(v) == TRUE

\* Value::toBool
toBool(v) ==
    CASE v.t = "Boolean" -> v.b
      [] v.t = "Number" -> v.n # 0
      [] v.t = "String" -> v.s # << >>
      [] OTHER -> FALSE

\* operator<< (std::ostream, double) with the default format: %g with six
\* significant digits.  The digits are produced by long division.
RECURSIVE natDigits(_)
natDigits(n) ==
    IF n < 10 THEN <<DigitSeq[n + 1]>> ELSE Append(natDigits(n \div 10), DigitSeq[(n % 10) + 1])

\* the first `count` digits of rem/d after the decimal point, and what is left
RECURSIVE fractionDigits(_, _, _)
fractionDigits(rem, d, count) ==
    IF count = 0 THEN [digits |-> << >>, rem |-> rem]
    ELSE LET r == fractionDigits((rem * 10) % d, d, count - 1)
         IN  [digits |-> <<DigitSeq[((rem * 10) \div d) + 1]>> \o r.digits, rem |-> r.rem]

\* the zeros between the decimal point and the first significant digit
RECURSIVE leadingZeros(_, _)
leadingZeros(rem, d) == IF rem * 10 >= d THEN 0 ELSE 1 + leadingZeros(rem * 10, d)

\* a digit string plus one in its last place (the carry may add a digit)
RECURSIVE incrementDigits(_)
incrementDigits(ds) ==
    IF ds = << >> THEN <<"1">>
    ELSE IF ds[Len(ds)] = "9"
    THEN Append(incrementDigits(SubSeq(ds, 1, Len(ds) - 1)), "0")
    ELSE Append(SubSeq(ds, 1, Len(ds) - 1), DigitSeq[digitValue(ds[Len(ds)]) + 2])

RECURSIVE stripZeros(_)
stripZeros(ds) ==
    IF ds # << >> /\ ds[Len(ds)] = "0" THEN stripZeros(SubSeq(ds, 1, Len(ds) - 1)) ELSE ds

IsPowerOfTwo(d) == \E k \in 0..14 : d = 2 ^ k

\* the text of a Number, or NaV where %g switches to scientific notation
\* or the rounding depends on the binary digits of the double
numberToString(v) ==
    LET ip == Abs(v.n) \div v.d
        rem == Abs(v.n) % v.d
        sign == IF v.n < 0 THEN <<"-">> ELSE << >>
        ipDigits == natDigits(ip)
        zeros == IF ip = 0 /\ rem # 0 THEN leadingZeros(rem, v.d) ELSE 0
        decimals == IF ip = 0 THEN 6 + zeros ELSE 6 - Len(ipDigits)
        fr == fractionDigits(rem, v.d, decimals)
        all == ipDigits \o fr.digits
        up == \/ 2 * fr.rem > v.d
              \/ 2 * fr.rem = v.d /\ digitValue(all[Len(all)]) % 2 = 1
        rounded == IF up THEN incrementDigits(all) ELSE all
        intPart == SubSeq(rounded, 1, Len(rounded) - decimals)
        fracPart == stripZeros(SubSeq(rounded, Len(rounded) - decimals + 1, Len(rounded)))
    IN  IF rem = 0
        THEN IF ip >= 1000000 THEN NaV ELSE StrV(sign \o ipDigits)
        ELSE IF ip >= 1000000 \/ zeros > 3 THEN NaV
        ELSE IF 2 * fr.rem = v.d /\ ~IsPowerOfTwo(v.d) THEN NaV
        ELSE IF Len(rounded) > Len(all) /\ Len(ipDigits) = 6 THEN NaV
        ELSE StrV(sign \o intPart \o (IF fracPart = << >> THEN << >> ELSE <<".">> \o fracPart))

\* Value::toString, as a String value (NaV when the text is not represented)
toString(v) ==
    CASE v.t = "String" -> v
      [] v.t = "Number" -> numberToString(v)
      [] v.t = "Boolean" -> StrV(IF v.b THEN <<"t", "r", "u", "e">> ELSE <<"f", "a", "l", "s", "e">>)
      [] v.t = "Null" -> StrV(<<"n", "u", "l", "l">>)
      [] OTHER -> NaV

T_DivisionByZero == <<"D", "i", "v", "i", "s", "i", "o", "n", " ", "b", "y", " ", "z", "e", "r", "o">>

\* Value::operator+, operator-, operator*: a Value, or NaV
valueAdd(a, b) ==
    LET Joined(x, y) == IF InModel(x) /\ InModel(y) THEN StrV(x.s \o y.s) ELSE NaV
        Sum(x, y) == IF InModel(x) /\ InModel(y) THEN NumAdd(x, y) ELSE NaV
    IN  IF a.t = "String" \/ b.t = "String"
        THEN Joined(toString(a), toString(b))
        ELSE Sum(toNumber(a), toNumber(b))

valueSub(a, b) ==
    LET Difference(x, y) == IF InModel(x) /\ InModel(y) THEN NumSub(x, y) ELSE NaV
    IN  Difference(toNumber(a), toNumber(b))

valueMul(a, b) ==
    LET Product(x, y) == IF InModel(x) /\ InModel(y) THEN NumMul(x, y) ELSE NaV
    IN  Product(toNumber(a), toNumber(b))

\* a division that hands back a value whatever the divisor is
valueDivSilent(a, b) == [ok |-> TRUE, value |-> NumV(0)]

\* Value::operator/: the quotient, or the exception
valueDiv(a, b) ==
    LET Quotient(x, divisor) ==
            IF ~InModel(divisor) \/ ~InModel(x) THEN Throw(OutOfModel)
            ELSE IF divisor.n = 0 THEN Throw(T_DivisionByZero)
            ELSE IF InModel(NumDiv(x, divisor))
            THEN [ok |-> TRUE, value |-> NumDiv(x, divisor)]
            ELSE Throw(OutOfModel)
    IN  Quotient(toNumber(a), toNumber(b))

\* Value::operator==
valueEquals(a, b) ==
    IF a.t # b.t THEN FALSE
    ELSE CASE a.t = "Number" -> a.n * b.d = b.n * a.d
           [] a.t = "Boolean" -> a.b = b.b
           [] a.t = "String" -> a.s = b.s
           [] OTHER -> TRUE

(***************************************************************************)
(* <cmath>, where the result is a fraction the model represents.  A result *)
(* that is irrational, infinite, NaN or a negative zero is NaV.            *)
(***************************************************************************)
RECURSIVE intPower(_, _)
intPower(a, k) ==
    IF k = 0 THEN NumV(1)
    ELSE LET r == intPower(a, k - 1)
         IN  IF InModel(r) THEN NumMul(r, a) ELSE NaV

\* std::pow
mathPow(a, b) ==
    IF ~IsInteger(b) \/ Abs(b.n) > 16 THEN NaV
    ELSE IF b.n >= 0 THEN intPower(a, b.n)
    ELSE IF a.n = 0 THEN NaV
    ELSE LET r == intPower(a, -b.n)
         IN  IF InModel(r) THEN NumDiv(NumV(1), r) ELSE NaV

\* the exact k-th root of a natural number, or -1
natRoot(x, k) ==
    IF \E r \in 0..x : r ^ k = x THEN CHOOSE r \in 0..x : r ^ k = x ELSE -1

\* the exact k-th root of a fraction that is not negative, or NaV
exactRoot(a, k) ==
    IF a.n > 1000 \/ a.d > 1000 \/ k > 8 THEN NaV
    ELSE LET rn == natRoot(a.n, k)
             rd == natRoot(a.d, k)
         IN  IF rn < 0 \/ rd < 0 THEN NaV ELSE Rat(rn, rd)

\* std::fmod(a, b), b # 0: the sign of a, magnitude below |b|
mathFmod(a, b) ==
    LET q == NumTrunc(NumDiv(a, b))
        r == NumSub(a, NumMul(q, b))
    IN  IF ~InModel(r) \/ (r.n = 0 /\ a.n < 0) THEN NaV ELSE r

\* -x, x * y and x / y of doubles, NaV where the result is a negative zero
mathNegate(a) == IF a.n = 0 THEN NaV ELSE Rat(-a.n, a.d)
SignedZero(a, b) == (a.n = 0 /\ b.n < 0) \/ (a.n < 0 /\ b.n = 0)

\* std::cbrt: the root of the magnitude with the sign of a
cubeRoot(a) ==
    LET Signed(r) == IF ~InModel(r) THEN NaV
                     ELSE IF a.n < 0 THEN Rat(-r.n, r.d) ELSE r
    IN  Signed(exactRoot(Rat(Abs(a.n), a.d), 3))

(***************************************************************************)
(* Evaluator (evaluator.cpp).  E is the state a visit works on: the        *)
(* Context, m_result, m_hasReturned, the lines written to std::cout, and   *)
(* whether an exception is propagating (ok = FALSE) with its what().       *)
(***************************************************************************)
T_NullNode == <<"C", "a", "n", "n", "o", "t", " ", "e", "v", "a", "l", "u", "a", "t", "e", " ", "n", "u", "l", "l", " ", "A", "S", "T", " ", "n", "o", "d", "e">>
T_UndefinedVariable == <<"U", "n", "d", "e", "f", "i", "n", "e", "d", " ", "v", "a", "r", "i", "a", "b", "l", "e", ":", " ">>
T_CompoundNotFound == <<"V", "a", "r", "i", "a", "b", "l", "e", " ", "n", "o", "t", " ", "f", "o", "u", "n", "d", " ", "f", "o", "r", " ", "c", "o", "m", "p", "o", "u", "n", "d", " ", "a", "s", "s", "i", "g", "n", "m", "e", "n", "t", ":", " ">>
T_InvalidTarget == <<"I", "n", "v", "a", "l", "i", "d", " ", "a", "s", "s", "i", "g", "n", "m", "e", "n", "t", " ", "t", "a", "r", "g", "e", "t">>
T_ModuloByZero == <<"M", "o", "d", "u", "l", "o", " ", "b", "y", " ", "z", "e", "r", "o">>
T_IntDivByZero == <<"I", "n", "t", "e", "g", "e", "r", " ", "d", "i", "v", "i", "s", "i", "o", "n", " ", "b", "y", " ", "z", "e", "r", "o">>
T_UnsupportedBinary == <<"U", "n", "s", "u", "p", "p", "o", "r", "t", "e", "d", " ", "b", "i", "n", "a", "r", "y", " ", "o", "p", "e", "r", "a", "t", "o", "r">>
T_PreIncNotFound == <<"V", "a", "r", "i", "a", "b", "l", "e", " ", "n", "o", "t", " ", "f", "o", "u", "n", "d", " ", "f", "o", "r", " ", "p", "r", "e", "-", "i", "n", "c", "r", "e", "m", "e", "n", "t", ":", " ">>
T_PreIncTarget == <<"P", "r", "e", "-", "i", "n", "c", "r", "e", "m", "e", "n", "t", " ", "c", "a", "n", " ", "o", "n", "l", "y", " ", "b", "e", " ", "a", "p", "p", "l", "i", "e", "d", " ", "t", "o", " ", "v", "a", "r", "i", "a", "b", "l", "e", "s">>
T_PostIncNotFound == <<"V", "a", "r", "i", "a", "b", "l", "e", " ", "n", "o", "t", " ", "f", "o", "u", "n", "d", " ", "f", "o", "r", " ", "p", "o", "s", "t", "-", "i", "n", "c", "r", "e", "m", "e", "n", "t", ":", " ">>
T_PostIncTarget == <<"P", "o", "s", "t", "-", "i", "n", "c", "r", "e", "m", "e", "n", "t", " ", "c", "a", "n", " ", "o", "n", "l", "y", " ", "b", "e", " ", "a", "p", "p", "l", "i", "e", "d", " ", "t", "o", " ", "v", "a", "r", "i", "a", "b", "l", "e", "s">>
T_PreDecNotFound == <<"V", "a", "r", "i", "a", "b", "l", "e", " ", "n", "o", "t", " ", "f", "o", "u", "n", "d", " ", "f", "o", "r", " ", "p", "r", "e", "-", "d", "e", "c", "r", "e", "m", "e", "n", "t", ":", " ">>
T_PreDecTarget == <<"P", "r", "e", "-", "d", "e", "c", "r", "e", "m", "e", "n", "t", " ", "c", "a", "n", " ", "o", "n", "l", "y", " ", "b", "e", " ", "a", "p", "p", "l", "i", "e", "d", " ", "t", "o", " ", "v", "a", "r", "i", "a", "b", "l", "e", "s">>
T_PostDecNotFound == <<"V", "a", "r", "i", "a", "b", "l", "e", " ", "n", "o", "t", " ", "f", "o", "u", "n", "d", " ", "f", "o", "r", " ", "p", "o", "s", "t", "-", "d", "e", "c", "r", "e", "m", "e", "n", "t", ":", " ">>
T_PostDecTarget == <<"P", "o", "s", "t", "-", "d", "e", "c", "r", "e", "m", "e", "n", "t", " ", "c", "a", "n", " ", "o", "n", "l", "y", " ", "b", "e", " ", "a", "p", "p", "l", "i", "e", "d", " ", "t", "o", " ", "v", "a", "r", "i", "a", "b", "l", "e", "s">>
T_UnsupportedUnary == <<"U", "n", "s", "u", "p", "p", "o", "r", "t", "e", "d", " ", "u", "n", "a", "r", "y", " ", "o", "p", "e", "r", "a", "t", "o", "r">>
T_InvalidCall == <<"I", "n", "v", "a", "l", "i", "d", " ", "f", "u", "n", "c", "t", "i", "o", "n", " ", "c", "a", "l", "l">>
T_SqrtNegative == <<"S", "q", "u", "a", "r", "e", " ", "r", "o", "o", "t", " ", "o", "f", " ", "n", "e", "g", "a", "t", "i", "v", "e", " ", "n", "u", "m", "b", "e", "r">>
T_LogNonPositive == <<"L", "o", "g", "a", "r", "i", "t", "h", "m", " ", "o", "f", " ", "n", "o", "n", "-", "p", "o", "s", "i", "t", "i", "v", "e", " ", "n", "u", "m", "b", "e", "r">>
T_Log10NonPositive == <<"L", "o", "g", "1", "0", " ", "o", "f", " ", "n", "o", "n", "-", "p", "o", "s", "i", "t", "i", "v", "e", " ", "n", "u", "m", "b", "e", "r">>
T_RootZero == <<"R", "o", "o", "t", " ", "d", "e", "g", "r", "e", "e", " ", "c", "a", "n", "n", "o", "t", " ", "b", "e", " ", "z", "e", "r", "o">>
T_EvenRootNegative == <<"E", "v", "e", "n", " ", "r", "o", "o", "t", " ", "o", "f", " ", "n", "e", "g", "a", "t", "i", "v", "e", " ", "n", "u", "m", "b", "e", "r">>
T_UnknownFunction == <<"U", "n", "k", "n", "o", "w", "n", " ", "f", "u", "n", "c", "t", "i", "o", "n", ":", " ">>
T_With == <<" ", "w", "i", "t", "h", " ">>
T_Arguments == <<" ", "a", "r", "g", "u", "m", "e", "n", "t", "s">>
T_ForNotImplemented == <<"F", "o", "r", " ", "l", "o", "o", "p", "s", " ", "n", "o", "t", " ", "y", "e", "t", " ", "i", "m", "p", "l", "e", "m", "e", "n", "t", "e", "d">>
T_FunctionDefNotImplemented == <<"F", "u", "n", "c", "t", "i", "o", "n", " ", "d", "e", "f", "i", "n", "i", "t", "i", "o", "n", "s", " ", "n", "o", "t", " ", "y", "e", "t", " ", "i", "m", "p", "l", "e", "m", "e", "n", "t", "e", "d">>

EvalState(ctx, returned) ==
    [ctx |-> ctx, result |-> NullV, hasReturned |-> returned, printed |-> << >>,
     ok |-> TRUE, err |-> Empty]

EThrow(E, msg) == [E EXCEPT !.ok = FALSE, !.err = msg]

\* m_result = v
SetResult(E, v) == IF InModel(v) THEN [E EXCEPT !.result = v] ELSE EThrow(E, OutOfModel)

\* Evaluator::evaluateBuiltinFunction: the value, or the exception
evaluateBuiltinFunction(name, args) ==
    LET n == Len(args)
        Value(v) == IF InModel(v) THEN [ok |-> TRUE, value |-> v] ELSE Throw(OutOfModel)
        known == \/ (name \in {<<"s", "i", "n">>, <<"c", "o", "s">>, <<"t", "a", "n">>, <<"s", "q", "r", "t">>, <<"l", "o", "g">>, <<"l", "o", "g", "1", "0">>,
                               <<"e", "x", "p">>, <<"a", "b", "s">>, <<"c", "b", "r", "t">>} /\ n = 1)
                 \/ (name \in {<<"p", "o", "w">>, <<"m", "i", "n">>, <<"m", "a", "x">>, <<"r", "o", "o", "t">>} /\ n = 2)
        \* a and b are args[0].toNumber() and args[1].toNumber()
        Dispatch(a, b) ==
            IF known /\ (~InModel(a) \/ (n = 2 /\ ~InModel(b))) THEN Throw(OutOfModel)
            ELSE IF name = <<"s", "i", "n">> /\ n = 1 THEN Value(IF a.n = 0 THEN NumV(0) ELSE NaV)
            ELSE IF name = <<"c", "o", "s">> /\ n = 1 THEN Value(IF a.n = 0 THEN NumV(1) ELSE NaV)
            ELSE IF name = <<"t", "a", "n">> /\ n = 1 THEN Value(IF a.n = 0 THEN NumV(0) ELSE NaV)
            ELSE IF name = <<"s", "q", "r", "t">> /\ n = 1
            THEN IF a.n < 0 THEN Throw(T_SqrtNegative) ELSE Value(exactRoot(a, 2))
            ELSE IF name = <<"l", "o", "g">> /\ n = 1
            THEN IF a.n <= 0 THEN Throw(T_LogNonPositive)
                 ELSE Value(IF a = NumV(1) THEN NumV(0) ELSE NaV)
            ELSE IF name = <<"l", "o", "g", "1", "0">> /\ n = 1
            THEN IF a.n <= 0 THEN Throw(T_Log10NonPositive)
                 ELSE Value(IF \E k \in 0..4 : a = NumV(10 ^ k)
                            THEN NumV(CHOOSE k \in 0..4 : a = NumV(10 ^ k)) ELSE NaV)
            ELSE IF name = <<"e", "x", "p">> /\ n = 1 THEN Value(IF a.n = 0 THEN NumV(1) ELSE NaV)
            ELSE IF name = <<"a", "b", "s">> /\ n = 1 THEN Value(Rat(Abs(a.n), a.d))
            ELSE IF name = <<"p", "o", "w">> /\ n = 2 THEN Value(mathPow(a, b))
            ELSE IF name = <<"m", "i", "n">> /\ n = 2 THEN Value(IF NumLess(b, a) THEN b ELSE a)
            ELSE IF name = <<"m", "a", "x">> /\ n = 2 THEN Value(IF NumLess(a, b) THEN b ELSE a)
            ELSE IF name = <<"r", "o", "o", "t">> /\ n = 2
            THEN IF a.n = 0 THEN Throw(T_RootZero)
                 ELSE IF b.n < 0 /\ IsInteger(a) /\ a.n % 2 = 0 THEN Throw(T_EvenRootNegative)
                 ELSE IF a = NumV(1) THEN Value(b)
                 ELSE IF IsInteger(a) /\ a.n > 0 /\ b.n >= 0 THEN Value(exactRoot(b, a.n))
                 ELSE Throw(OutOfModel)
            ELSE IF name = <<"c", "b", "r", "t">> /\ n = 1
            THEN Value(cubeRoot(a))
            ELSE Throw(T_UnknownFunction \o name \o T_With \o natDigits(n) \o T_Arguments)
    IN  Dispatch(IF n >= 1 THEN toNumber(args[1]) ELSE NaV,
                 IF n >= 2 THEN toNumber(args[2]) ELSE NaV)

\* the switch of Evaluator::visit(BinaryOpNode*) on the operators other than
\* the assignments, and and or: the value, or the exception
binaryOperation(op, left, right) ==
    LET Value(v) == IF InModel(v) THEN [ok |-> TRUE, value |-> v] ELSE Throw(OutOfModel)
        Truncated(l, r, q) ==
            IF ~InModel(q) \/ (q.n <= 0 /\ Abs(q.n) < q.d /\ (l.n < 0) # (r.n < 0))
            THEN NaV ELSE NumTrunc(q)
        \* l and r are left.toNumber() and right.toNumber()
        Switch(l, r) ==
            IF ~InModel(l) \/ ~InModel(r) THEN Throw(OutOfModel)
            ELSE CASE op = "Subtract" -> Value(valueSub(left, right))
                   [] op = "Multiply" ->
                        Value(IF SignedZero(l, r) THEN NaV ELSE valueMul(left, right))
                   [] op = "Divide" ->
                        IF r.n = 0 THEN Throw(T_DivisionByZero)
                        ELSE IF SignedZero(l, r) THEN Throw(OutOfModel)
                        ELSE valueDiv(left, right)
                   [] op = "Power" -> Value(mathPow(l, r))
                   [] op = "Mod" ->
                        IF r.n = 0 THEN Throw(T_ModuloByZero) ELSE Value(mathFmod(l, r))
                   [] op = "Div" ->
                        IF r.n = 0 THEN Throw(T_IntDivByZero)
                        ELSE Value(Truncated(l, r, NumDiv(l, r)))
                   [] op = "Equal" -> Value(BoolV(l.n * r.d = r.n * l.d))
                   [] op = "NotEqual" -> Value(BoolV(l.n * r.d # r.n * l.d))
                   [] op = "Less" -> Value(BoolV(NumLess(l, r)))
                   [] op = "Greater" -> Value(BoolV(NumLess(r, l)))
                   [] op = "LessEqual" -> Value(BoolV(~NumLess(r, l)))
                   [] op = "GreaterEqual" -> Value(BoolV(~NumLess(l, r)))
                   [] OTHER -> Throw(T_UnsupportedBinary)
    IN  IF op = "Add" THEN Value(valueAdd(left, right))
        ELSE Switch(toNumber(left), toNumber(right))

\* current op right of a compound assignment (Value::operator+ - * /)
compoundOperation(op, current, right) ==
    LET Value(v) == IF InModel(v) THEN [ok |-> TRUE, value |-> v] ELSE Throw(OutOfModel)
        Numeric(l, r) ==
            IF ~InModel(l) \/ ~InModel(r) THEN Throw(OutOfModel)
            ELSE CASE op = "MinusAssign" -> Value(valueSub(current, right))
                   [] op = "MultiplyAssign" ->
                        Value(IF SignedZero(l, r) THEN NaV ELSE valueMul(current, right))
                   [] op = "DivideAssign" ->
                        IF r.n # 0 /\ SignedZero(l, r) THEN Throw(OutOfModel)
                        ELSE valueDiv(current, right)
    IN  IF op = "PlusAssign" THEN Value(valueAdd(current, right))
        ELSE Numeric(toNumber(current), toNumber(right))

RECURSIVE evaluate(_, _), visit(_, _), visitBinaryOp(_, _), visitUnaryOp(_, _),
          visitFunctionCall(_, _), evaluateArguments(_, _, _), visitIf(_, _),
          whileLoop(_, _, _), visitBlockLoop(_, _, _), visitBlock(_, _),
          printLoopOutput(_, _, _), visitReturn(_, _)

\* Evaluator::evaluate
evaluate(node, E) ==
    IF node = NoNode
    THEN EThrow(E, T_NullNode)
    ELSE visit(node, [E EXCEPT !.hasReturned = FALSE, !.result = NullV])

\* Evaluator::visit(LiteralNode*)
visitLiteral(node, E) == SetResult(E, node.value)

\* Evaluator::visit(IdentifierNode*).  M_PI and M_E have more digits than
\* the model represents.
visitIdentifier(node, E) ==
    IF node.name = <<"p", "i">> \/ node.name = <<"e">> THEN EThrow(E, OutOfModel)
    ELSE IF hasVariable(E.ctx, node.name)
    THEN SetResult(E, getVariable(E.ctx, node.name))
    ELSE EThrow(E, T_UndefinedVariable \o node.name)

\* the state after an operation that gave v: m_result = v.value, or the
\* exception v.err is thrown
Given(E, v) == IF v.ok THEN SetResult(E, v.value) ELSE EThrow(E, v.err)

\* the states after m_context->setVariable(name, v.value); m_result = v.value
Stored(E, name, v) ==
    IF ~v.ok THEN EThrow(E, v.err)
    ELSE [E EXCEPT !.ctx = setVariable(E.ctx, name, v.value), !.result = v.value]

\* Evaluator::visit(BinaryOpNode*).  In the bindings right is the state
\* after the right operand was evaluated, left the state after the left one.
visitBinaryOp(node, E) ==
    IF node.op \in AssignOps
    THEN IF node.left.k = "Identifier"
         THEN Only({IF ~right.ok THEN right
                    ELSE IF node.op = "Assign"
                    THEN [right EXCEPT
                            !.ctx = setVariable(right.ctx, node.left.name, right.result)]
                    ELSE IF hasVariable(right.ctx, node.left.name)
                    THEN Stored(right, node.left.name,
                                compoundOperation(node.op,
                                                  getVariable(right.ctx, node.left.name),
                                                  right.result))
                    ELSE EThrow(right, T_CompoundNotFound \o node.left.name)
                    : right \in {evaluate(node.right, E)}})
         ELSE EThrow(E, T_InvalidTarget)
    ELSE Only({IF ~left.ok THEN left
               ELSE IF node.op = "And" /\ ~toBool(left.result)
               THEN SetResult(left, BoolV(FALSE))
               ELSE IF node.op = "Or" /\ toBool(left.result)
               THEN SetResult(left, BoolV(TRUE))
               ELSE Only({IF ~right.ok THEN right
                          ELSE IF node.op \in {"And", "Or"}
                          THEN SetResult(right, BoolV(toBool(right.result)))
                          ELSE Given(right, binaryOperation(node.op, left.result,
                                                            right.result))
                          : right \in {evaluate(node.right, left)}})
               : left \in {evaluate(node.left, E)}})

\* -operand.toNumber()
negated(x) == IF InModel(x) THEN mathNegate(x) ELSE NaV

\* current.toNumber() + step
stepped(x, step) == IF InModel(x) THEN NumAdd(x, NumV(step)) ELSE NaV

\* the messages of ++ and -- for a variable that is not bound, and for an
\* operand that is not a variable
notFound(op) ==
    CASE op = "PreIncrement" -> T_PreIncNotFound
      [] op = "PostIncrement" -> T_PostIncNotFound
      [] op = "PreDecrement" -> T_PreDecNotFound
      [] op = "PostDecrement" -> T_PostDecNotFound

notVariable(op) ==
    CASE op = "PreIncrement" -> T_PreIncTarget
      [] op = "PostIncrement" -> T_PostIncTarget
      [] op = "PreDecrement" -> T_PreDecTarget
      [] op = "PostDecrement" -> T_PostDecTarget

\* ++ and -- that yield the new value in the postfix forms as well
updatedYieldsNew(E, op, name, current, newValue) ==
    IF ~InModel(newValue) THEN EThrow(E, OutOfModel)
    ELSE SetResult([E EXCEPT !.ctx = setVariable(E.ctx, name, newValue)], newValue)

\* ++ and -- on the variable name: it becomes newValue, and m_result is the
\* new value for the prefix forms and the old one for the postfix forms
updated(E, op, name, current, newValue) ==
    IF ~InModel(newValue) THEN EThrow(E, OutOfModel)
    ELSE SetResult([E EXCEPT !.ctx = setVariable(E.ctx, name, newValue)],
                   IF op \in {"PreIncrement", "PreDecrement"} THEN newValue ELSE current)

\* Evaluator::visit(UnaryOpNode*)
visitUnaryOp(node, E) ==
    IF node.op \in {"Negate", "Not"}
    THEN Only({IF ~operand.ok THEN operand
               ELSE IF node.op = "Negate"
               THEN SetResult(operand, negated(toNumber(operand.result)))
               ELSE SetResult(operand, BoolV(~toBool(operand.result)))
               : operand \in {evaluate(node.operand, E)}})
    ELSE IF node.op \in {"PreIncrement", "PostIncrement", "PreDecrement", "PostDecrement"}
    THEN IF node.operand.k = "Identifier"
         THEN IF hasVariable(E.ctx, node.operand.name)
              THEN updated(E, node.op, node.operand.name,
                           getVariable(E.ctx, node.operand.name),
                           stepped(toNumber(getVariable(E.ctx, node.operand.name)),
                                   IF node.op \in {"PreIncrement", "PostIncrement"}
                                   THEN 1 ELSE -1))
              ELSE EThrow(E, notFound(node.op) \o node.operand.name)
         ELSE EThrow(E, notVariable(node.op))
    ELSE EThrow(E, T_UnsupportedUnary)

\* the argument loop of Evaluator::visit(FunctionCallNode*): args collects
\* the values, and is the result of the state that is handed back
evaluateArguments(arguments, args, E) ==
    IF arguments = << >> THEN [E EXCEPT !.result = args]
    ELSE Only({IF ~arg.ok THEN arg
               ELSE evaluateArguments(Tail(arguments), Append(args, arg.result), arg)
               : arg \in {evaluate(Head(arguments), E)}})

\* Evaluator::visit(FunctionCallNode*)
visitFunctionCall(node, E) ==
    IF node.function.k # "Identifier"
    THEN EThrow(E, T_InvalidCall)
    ELSE Only({IF ~args.ok THEN args
               ELSE Given(args, evaluateBuiltinFunction(node.function.name, args.result))
               : args \in {evaluateArguments(node.arguments, << >>, E)}})

\* Evaluator::visit(IfNode*)
visitIf(node, E) ==
    Only({IF ~condition.ok THEN condition
          ELSE IF toBool(condition.result) THEN evaluate(node.thenBranch, condition)
          ELSE IF node.elseBranch # NoNode THEN evaluate(node.elseBranch, condition)
          ELSE SetResult(condition, NullV)
          : condition \in {evaluate(node.condition, E)}})

\* Evaluator::visit(WhileNode*): the loop; iteration i is about to start
whileLoop(node, E, i) ==
    IF i > MaxIter THEN EThrow(E, OutOfModel)
    ELSE Only({IF ~condition.ok THEN condition
               ELSE IF ~toBool(condition.result) THEN condition
               ELSE Only({IF ~body.ok THEN body
                          ELSE IF body.hasReturned THEN body
                          ELSE whileLoop(node, body, i + 1)
                          : body \in {evaluate(node.body, condition)}})
               : condition \in {evaluate(node.condition, E)}})

visitWhile(node, E) == whileLoop(node, SetResult(E, NullV), 1)

\* Evaluator::visit(ForNode*)
visitFor(node, E) == EThrow(E, T_ForNotImplemented)

\* a statement loop that does not look at the return flag
RECURSIVE visitBlockLoopOn(_, _, _)
visitBlockLoopOn(statements, i, E) ==
    IF i > Len(statements) THEN E
    ELSE Only({IF ~statement.ok THEN statement
               ELSE visitBlockLoopOn(statements, i + 1, statement)
               : statement \in {evaluate(statements[i], E)}})

\* Evaluator::visit(BlockNode*): the loop over the statements from index i
visitBlockLoop(statements, i, E) ==
    IF i > Len(statements) THEN E
    ELSE Only({IF ~statement.ok THEN statement
               ELSE IF statement.hasReturned THEN statement
               ELSE visitBlockLoop(statements, i + 1, statement)
               : statement \in {evaluate(statements[i], E)}})

\* the context after pushScope() or popScope() in the state E
scoped(E, ctx) == [E EXCEPT !.ctx = ctx]

\* a block that evaluates its statements in a scope of its own
visitBlockScoped(node, E) ==
    Only({scoped(inner, popScope(inner.ctx))
          : inner \in {IF node.statements = << >> THEN SetResult(scoped(E, pushScope(E.ctx)), NullV)
                       ELSE visitBlockLoop(node.statements, 1,
                                           scoped(E, pushScope(E.ctx)))}})

\* a block with a scope of its own that is popped only when the last
\* statement has completed
visitBlockLeaky(node, E) ==
    Only({IF inner.ok /\ ~inner.hasReturned
          THEN scoped(inner, popScope(inner.ctx)) ELSE inner
          : inner \in {IF node.statements = << >> THEN SetResult(scoped(E, pushScope(E.ctx)), NullV)
                       ELSE visitBlockLoop(node.statements, 1,
                                           scoped(E, pushScope(E.ctx)))}})

visitBlock(node, E) ==
    IF node.statements = << >> THEN SetResult(E, NullV)
    ELSE visitBlockLoop(node.statements, 1, E)

\* Evaluator::visit(FunctionDefNode*)
visitFunctionDef(node, E) == EThrow(E, T_FunctionDefNotImplemented)

\* m_hasReturned = true
returned(E) == IF ~E.ok THEN E ELSE [E EXCEPT !.hasReturned = TRUE]

\* Evaluator::visit(ReturnNode*)
visitReturn(node, E) ==
    IF node.value # NoNode
    THEN returned(evaluate(node.value, E))
    ELSE returned(SetResult(E, NullV))

\* output += value.toString()
appended(E, text) ==
    IF ~InModel(text) THEN EThrow(E, OutOfModel)
    ELSE [E EXCEPT !.printed[Len(E.printed)] = @ \o text.s]

\* Evaluator::visit(PrintNode*): the loop over the expressions from index i;
\* the last line of printed is the output string in the making
printLoopOutput(expressions, i, E) ==
    IF i > Len(expressions) THEN E
    ELSE Only({IF ~value.ok THEN value
               ELSE Only({IF ~shown.ok THEN shown
                          ELSE printLoopOutput(expressions, i + 1, shown)
                          : shown \in {appended(value, toString(value.result))}})
               : value \in {evaluate(expressions[i], E)}})

visitPrint(node, E) ==
    Only({IF ~shown.ok THEN [shown EXCEPT !.printed = E.printed]
          ELSE SetResult(shown, NullV)
          : shown \in {printLoopOutput(node.expressions, 1,
                                       [E EXCEPT !.printed = Append(@, Empty)])}})

\* ASTNode::accept: the dispatch on the class of the node
visit(node, E) ==
    CASE node.k = "Literal" -> visitLiteral(node, E)
      [] node.k = "Identifier" -> visitIdentifier(node, E)
      [] node.k = "BinaryOp" -> visitBinaryOp(node, E)
      [] node.k = "UnaryOp" -> visitUnaryOp(node, E)
      [] node.k = "FunctionCall" -> visitFunctionCall(node, E)
      [] node.k = "If" -> visitIf(node, E)
      [] node.k = "While" -> visitWhile(node, E)
      [] node.k = "For" -> visitFor(node, E)
      [] node.k = "Block" -> visitBlock(node, E)
      [] node.k = "FunctionDef" -> visitFunctionDef(node, E)
      [] node.k = "Return" -> visitReturn(node, E)
      [] node.k = "Print" -> visitPrint(node, E)

(***************************************************************************)
(* Interpreter (interpreter.cpp).  The interpreter owns a Context and an   *)
(* Evaluator; I is the record of its members.                              *)
(***************************************************************************)
T_UnknownError == <<"U", "n", "k", "n", "o", "w", "n", " ", "e", "r", "r", "o", "r", " ", "o", "c", "c", "u", "r", "r", "e", "d", " ", "d", "u", "r", "i", "n", "g", " ", "e", "x", "e", "c", "u", "t", "i", "o", "n">>

\* the node classes whose value execute() does not show
SilentNodes == {"Print", "Block", "While", "For", "If"}

\* m_lastError is left as it is
keepLastError(I) == I

\* m_lastError.clear()
clearLastError(I) == [I EXCEPT !.lastError = Empty]

\* what execute() hands back: the returned text, the members afterwards,
\* the lines written to std::cout and where the run ended
Executed(I, result, printed, outcome) ==
    [ctx |-> I.ctx, hasReturned |-> I.hasReturned, lastError |-> I.lastError,
     result |-> result, printed |-> printed, outcome |-> outcome]

\* the catch clauses of Interpreter::execute
catchError(I, err, outcome) ==
    IF err = OutOfModel
    THEN Executed(I, Empty, << >>, "outOfModel")
    ELSE Executed([I EXCEPT !.lastError = err], Empty, << >>, outcome)

\* members that do not take up what the evaluation has done
executedDiscard(I, evaluated) == I

\* the end of Interpreter::execute: the members after the evaluation that
\* ended in the state evaluated
executed(I, evaluated) ==
    [I EXCEPT !.ctx = evaluated.ctx, !.hasReturned = evaluated.hasReturned]

\* the text execute() returns for the result of a node of class k
resultText(I, k, evaluated, text) ==
    IF k \in SilentNodes THEN Executed(I, Empty, evaluated.printed, "ok")
    ELSE IF InModel(text) THEN Executed(I, text.s, evaluated.printed, "ok")
    ELSE Executed(I, Empty, << >>, "outOfModel")

\* Interpreter::execute
execute(code, I) ==
    Only({IF ~tokens.ok THEN catchError(clearLastError(I), tokens.err, "lexError") ELSE
    Only({IF ~ast.ok THEN catchError(clearLastError(I), ast.err, "parseError") ELSE
    Only({IF ~evaluated.ok
          THEN catchError(executed(clearLastError(I), evaluated), evaluated.err,
                          "runtimeError")
          ELSE resultText(executed(clearLastError(I), evaluated), ast.node.k, evaluated,
                          toString(evaluated.result))
          : evaluated \in {evaluate(ast.node, EvalState(I.ctx, I.hasReturned))}})
          : ast \in {parse(tokens.tokens)}})
          : tokens \in {tokenize(code)}})

\* Interpreter::isValidSyntax
isValidSyntax(code) ==
    Only({IF ~tokens.ok THEN FALSE ELSE parse(tokens.tokens).ok
          : tokens \in {tokenize(code)}})

\* Interpreter::clearContext
clearContext(I) == [I EXCEPT !.ctx = NewContext]

(***************************************************************************)
(* The state machine.  The program state is the Context (scopes and        *)
(* functions), the evaluator's return flag and the interpreter's last      *)
(* error; call and snap are history variables.                             *)
(***************************************************************************)
Self == [ctx |-> Ctx(scopes, functions), hasReturned |-> hasReturned,
         lastError |-> lastError]

\* the record of a call: the operation, its arguments, the scope stack and
\* the last error it started from, and what came back
NoCall ==
    [op |-> "none", name |-> Empty, value |-> NullV, code |-> Empty,
     tree |-> NoNode, before |-> << >>, errorBefore |-> Empty,
     result |-> Empty, returned |-> NullV, printed |-> << >>,
     error |-> Empty, outcome |-> "none", tokens |-> << >>, parsed |-> NoNode,
     pos |-> 0]

Called(op) == [NoCall EXCEPT !.op = op, !.before = scopes, !.errorBefore = lastError]

\* snap follows the scope stack: a pushed scope records the scopes below it
Resnap(new) ==
    IF Len(new) > Len(snap)
    THEN snap \o [i \in 1..(Len(new) - Len(snap)) |-> SubSeq(new, 1, Len(snap) + i - 1)]
    ELSE SubSeq(snap, 1, Len(new))

Init ==
    /\ scopes = NewContext.scopes
    /\ functions = NewContext.functions
    /\ hasReturned = FALSE
    /\ lastError = Empty
    /\ call = NoCall
    /\ snap = << << >> >>

\* the context becomes ctx
SetContext(ctx) ==
    /\ scopes' = ctx.scopes
    /\ functions' = ctx.functions
    /\ snap' = Resnap(ctx.scopes)

(***************************************************************************)
(* The client of a Context: names, values and functions it uses.           *)
(***************************************************************************)
Names == {<<"x">>, <<"y">>}
Values == {NumV(1), NumV(2)}
FunctionNames == {<<"f">>}
UserFunctions ==
    {[name |-> <<"f">>, parameters |-> ps, body |-> LiteralNode(NumV(Len(ps)))] :
        ps \in {<< >>, <<<<"a">>>>}}

PushScope ==
    /\ Len(scopes) < MaxDepth
    /\ call' = Called("pushScope")
    /\ SetContext(pushScope(Self.ctx))
    /\ UNCHANGED <<hasReturned, lastError>>

PopScope ==
    /\ call' = Called("popScope")
    /\ SetContext(popScope(Self.ctx))
    /\ UNCHANGED <<hasReturned, lastError>>

SetVariable ==
    \E name \in Names, value \in Values :
        /\ call' = [Called("setVariable") EXCEPT !.name = name, !.value = value]
        /\ SetContext(setVariable(Self.ctx, name, value))
        /\ UNCHANGED <<hasReturned, lastError>>

GetVariable ==
    \E name \in Names :
        /\ call' = [Called("getVariable") EXCEPT !.name = name,
                        !.returned = getVariable(Self.ctx, name)]
        /\ UNCHANGED <<scopes, functions, snap, hasReturned, lastError>>

HasVariable ==
    \E name \in Names :
        /\ call' = [Called("hasVariable") EXCEPT !.name = name,
                        !.returned = BoolV(hasVariable(Self.ctx, name))]
        /\ UNCHANGED <<scopes, functions, snap, hasReturned, lastError>>

RemoveVariable ==
    \E name \in Names :
        /\ call' = [Called("removeVariable") EXCEPT !.name = name]
        /\ SetContext(removeVariable(Self.ctx, name))
        /\ UNCHANGED <<hasReturned, lastError>>

SetFunction ==
    \E function \in UserFunctions :
        /\ call' = [Called("setFunction") EXCEPT !.name = function.name]
        /\ SetContext(setFunction(Self.ctx, function.name, function))
        /\ UNCHANGED <<hasReturned, lastError>>

RemoveFunction ==
    \E name \in FunctionNames :
        /\ call' = [Called("removeFunction") EXCEPT !.name = name]
        /\ SetContext(removeFunction(Self.ctx, name))
        /\ UNCHANGED <<hasReturned, lastError>>

Clear ==
    /\ call' = Called("clear")
    /\ SetContext(clear(Self.ctx))
    /\ UNCHANGED <<hasReturned, lastError>>

NextContext ==
    \/ PushScope
    \/ PopScope
    \/ SetVariable
    \/ GetVariable
    \/ HasVariable
    \/ RemoveVariable
    \/ SetFunction
    \/ RemoveFunction
    \/ Clear

SpecContext == Init /\ [][NextContext]_vars

(***************************************************************************)
(* Properties of the Context (SpecContext).                                *)
(***************************************************************************)

\* C1: after any sequence of Context operations the scope stack holds at
\* least one scope, and a popScope called while only the global scope
\* exists leaves the stack, and so the global variables, as they were.
C1_GlobalScopeKept ==
    /\ Len(scopes) >= 1
    /\ (call.op = "popScope" /\ Len(call.before) = 1) => scopes = call.before

\* popScope has just been called on a stack of one scope holding a variable
C1_PopAtGlobal ==
    /\ call.op = "popScope"
    /\ Len(call.before) = 1
    /\ DOMAIN call.before[1] # {}

\* the scopes of the current stack that bind name
Binders(name) == {i \in 1..Len(scopes) : name \in DOMAIN scopes[i]}

\* the innermost of them
Innermost(name) == CHOOSE i \in Binders(name) : \A j \in Binders(name) : j <= i

\* C2: getVariable returns the binding of the innermost scope that binds the
\* name (a null Value when none does), and hasVariable is false exactly
\* when no scope on the stack binds the name.
C2_InnermostFirst ==
    /\ call.op = "getVariable" =>
          call.returned = IF Binders(call.name) = {} THEN NullV
                          ELSE scopes[Innermost(call.name)][call.name]
    /\ call.op = "hasVariable" =>
          call.returned = BoolV(Binders(call.name) # {})

\* getVariable has just been called for a name that an inner scope shadows
\* with another value than the global scope gives it
C2_ShadowedLookup ==
    /\ call.op = "getVariable"
    /\ 1 \in Binders(call.name)
    /\ Innermost(call.name) > 1
    /\ scopes[Innermost(call.name)][call.name] # scopes[1][call.name]

\* how a stack of scopes resolves a name: bound or not, and to what
Resolve(sc, name) ==
    [bound |-> hasVariable(Ctx(sc, functions), name),
     value |-> getVariable(Ctx(sc, functions), name)]

\* C3: setVariable writes the innermost scope only: the scopes below it, the
\* depth and the function table stay as they were and the name then
\* resolves to the value; and a popScope that removes a scope gives every
\* name the value, or the absence, it had when that scope was pushed.
C3_SetIsLocal ==
    [][/\ call'.op = "setVariable" =>
            /\ functions' = functions
            /\ Len(scopes') = Len(scopes)
            /\ \A i \in 1..(Len(scopes) - 1) : scopes'[i] = scopes[i]
            /\ Resolve(scopes', call'.name) = [bound |-> TRUE, value |-> call'.value]
       /\ (call'.op = "popScope" /\ Len(scopes) > 1) =>
            \A name \in Names :
                Resolve(scopes', name) = Resolve(snap[Len(scopes)], name)]_vars

\* a scope has just been popped in which a name had been set to another
\* value than, or in the absence of, the binding that is visible again
C3_ShadowDropped ==
    /\ call.op = "popScope"
    /\ Len(call.before) > 1
    /\ \E name \in DOMAIN call.before[Len(call.before)] :
          Resolve(scopes, name) #
              [bound |-> TRUE, value |-> call.before[Len(call.before)][name]]

(***************************************************************************)
(* The client of an Evaluator: it keeps a Context, pushes and pops scopes  *)
(* on it and has trees evaluated against it.  Trees are built directly, so *)
(* that node classes the parser never produces are evaluated as well.      *)
(***************************************************************************)
X == IdentifierNode(<<"x">>)
Num(n) == LiteralNode(NumV(n))
Assign(target, node) == BinaryOpNode(target, "Assign", node)
Increment(target) == Assign(target, BinaryOpNode(target, "Add", Num(1)))

Trees ==
    {NoNode,
     Assign(X, Num(1)),
     Increment(X),
     BlockNode(<<Assign(X, Num(2))>>),
     BlockNode(<<Increment(X), BlockNode(<<ReturnNode(X), Assign(X, Num(1))>>),
                 Assign(X, Num(2))>>),
     BlockNode(<<BlockNode(<<Assign(X, Num(1)), BinaryOpNode(X, "Divide", Num(0))>>),
                 Assign(X, Num(2))>>),
     WhileNode(BinaryOpNode(X, "Less", Num(3)), BlockNode(<<Increment(X)>>)),
     WhileNode(Num(1), BlockNode(<<BlockNode(<<ReturnNode(NoNode)>>)>>)),
     ForNode(NoNode, NoNode, NoNode, BlockNode(<< >>)),
     FunctionDefNode(<<"f">>, <<<<"a">>>>, ReturnNode(IdentifierNode(<<"a">>))),
     FunctionCallNode(IdentifierNode(<<"f">>), <<Num(1)>>),
     ReturnNode(NoNode),
     PrintNode(<<X>>)}

\* every number kept in a variable is an integer of at most MaxNum
InBounds(sc) ==
    \A i \in 1..Len(sc) : \A name \in DOMAIN sc[i] :
        sc[i][name].t = "Number" =>
            (sc[i][name].d = 1 /\ Abs(sc[i][name].n) <= MaxNum)

Evaluate ==
    \E tree \in Trees :
        \E R \in {evaluate(tree, EvalState(Self.ctx, hasReturned))} :
            /\ R.err # OutOfModel
            /\ InBounds(R.ctx.scopes)
            /\ call' = [Called("evaluate") EXCEPT
                            !.tree = tree,
                            !.returned = IF R.ok THEN R.result ELSE NullV,
                            !.printed = R.printed,
                            !.error = R.err,
                            !.outcome = IF R.ok THEN "ok" ELSE "runtimeError"]
            /\ SetContext(R.ctx)
            /\ hasReturned' = R.hasReturned
            /\ UNCHANGED lastError

NextEval ==
    \/ PushScope
    \/ PopScope
    \/ Evaluate

SpecEval == Init /\ [][NextEval]_vars

(***************************************************************************)
(* The client of an Interpreter: it has program texts executed and clears  *)
(* the context.                                                            *)
(***************************************************************************)
AssignX == <<"x", " ", "=", " ", "1">>
IncrementX == <<"x", " ", "=", " ", "x", " ", "+", " ", "1">>
ReadX == <<"x">>
ReadY == <<"y">>
ZeroI == <<"i", " ", "=", " ", "0">>
CountToThree == <<"w", "h", "i", "l", "e", " ", "(", "i", " ", "<", " ", "3", ")", " ", "{", " ", "i", " ", "=", " ", "i", " ", "+", " ", "1", " ", "}">>
BlockY == <<"{", " ", "y", " ", "=", " ", "2", " ", "}">>
BlockIncrementX == <<"{", " ", "x", " ", "=", " ", "x", " ", "+", " ", "1", " ", "}">>
DivideByZero == <<"5", " ", "/", " ", "0">>
UndefinedVar == <<"u", "n", "d", "e", "f", "i", "n", "e", "d", "_", "v", "a", "r", " ", "+", " ", "5">>
TwoPlusPlus == <<"2", " ", "+", " ", "+", " ", "3">>
DefineAdd == <<"f", "u", "n", "c", "t", "i", "o", "n", " ", "a", "d", "d", "(", "a", ",", "b", ")", " ", "r", "e", "t", "u", "r", "n", " ", "a", "+", "b">>
CallAdd == <<"a", "d", "d", "(", "2", ",", "3", ")">>
CallAddOne == <<"a", "d", "d", "(", "2", ")">>
OpenString == <<"\"", "a", "b", "c">>
PrintX == <<"p", "r", "i", "n", "t", " ", "x">>

Codes ==
    {AssignX, IncrementX, ReadX, ReadY, ZeroI, CountToThree, BlockY,
     BlockIncrementX, DivideByZero, UndefinedVar, TwoPlusPlus, DefineAdd,
     CallAdd, CallAddOne, OpenString, PrintX}

Execute ==
    \E code \in Codes :
        \E R \in {execute(code, Self)} :
            /\ R.outcome # "outOfModel"
            /\ InBounds(R.ctx.scopes)
            /\ call' = [Called("execute") EXCEPT
                            !.code = code,
                            !.result = R.result,
                            !.printed = R.printed,
                            !.error = R.lastError,
                            !.outcome = R.outcome]
            /\ SetContext(R.ctx)
            /\ hasReturned' = R.hasReturned
            /\ lastError' = R.lastError

ClearContext ==
    \E I \in {clearContext(Self)} :
        /\ call' = Called("clearContext")
        /\ SetContext(I.ctx)
        /\ hasReturned' = I.hasReturned
        /\ lastError' = I.lastError

Next ==
    \/ Execute
    \/ ClearContext

Spec == Init /\ [][Next]_vars

(***************************************************************************)
(* Properties of the evaluator and the interpreter.                        *)
(***************************************************************************)
\* the context the last call started from
Before == Ctx(call.before, functions)

NameY == <<"y">>
NameI == <<"i">>
NameX == <<"x">>

\* the outcomes of execute() that are failures
Failures == {"lexError", "parseError", "runtimeError"}

\* C4: a variable that was not bound before a block and is assigned inside
\* it is not visible once the block has exited: after `{ y = 2 }` was
\* executed where y was unbound, hasVariable(y) is false, and a read of y
\* that follows fails with the undefined-variable error.
C4_BlockVariableDropped ==
    (call.op = "execute" /\ call.code = BlockY /\ call.outcome = "ok"
        /\ ~hasVariable(Before, NameY))
    => /\ ~hasVariable(Self.ctx, NameY)
       /\ \A R \in {execute(ReadY, Self)} :
              /\ R.outcome = "runtimeError"
              /\ R.lastError = T_UndefinedVariable \o NameY

\* C5: a variable bound in an enclosing scope is readable and mutable from
\* within a nested block: after `{ x = x + 1 }` the value of x is one more
\* than before, and from i = 0 the statement `while (i < 3) { i = i + 1 }`
\* terminates and leaves i = 3.
C5_OuterVariableMutable ==
    /\ (call.op = "execute" /\ call.code = BlockIncrementX /\ hasVariable(Before, NameX))
       => /\ call.outcome = "ok"
          /\ getVariable(Self.ctx, NameX) = NumAdd(getVariable(Before, NameX), NumV(1))
    /\ (call.op = "execute" /\ call.code = CountToThree
            /\ getVariable(Before, NameI) = NumV(0))
       => /\ call.outcome = "ok"
          /\ getVariable(Self.ctx, NameI) = NumV(3)
    /\ getVariable(Self.ctx, NameI) = NumV(0)
       => \A R \in {execute(CountToThree, Self)} :
              /\ R.outcome = "ok"
              /\ getVariable(R.ctx, NameI) = NumV(3)

\* the loop of C5 has run from i = 0 and left i = 3
C5_CountedToThree ==
    /\ call.op = "execute"
    /\ call.code = CountToThree
    /\ getVariable(Before, NameI) = NumV(0)
    /\ call.outcome = "ok"
    /\ getVariable(Self.ctx, NameI) = NumV(3)

\* C6: the scope depth when an evaluate or execute call ends equals the
\* depth when it started, whether the call ended normally, by an early
\* return through nested blocks, or by an error.
C6_DepthKept ==
    call.op \in {"evaluate", "execute"} => Len(scopes) = Len(call.before)

\* an early return has unwound through nested blocks below a pushed scope
C6_ReturnUnwound ==
    /\ call.op = "evaluate"
    /\ call.tree.k = "Block"
    /\ call.outcome = "ok"
    /\ hasReturned
    /\ Len(call.before) > 1
    /\ Len(scopes) = Len(call.before)

\* C7: after `function add(a,b) return a+b` was executed, `add(2,3)` yields
\* 5, and add called with one argument fails.
C7_AddRoundTrip ==
    [][/\ (call.code = DefineAdd /\ call'.code = CallAdd)
          => (call'.outcome = "ok" /\ call'.result = <<"5">>)
       /\ (call.code = DefineAdd /\ call'.code = CallAddOne)
          => call'.outcome = "runtimeError"]_vars

\* C8: evaluating a FunctionDef registers the function under its name in
\* the function table and yields Null.
C8_FunctionDefRegisters ==
    (call.op = "evaluate" /\ call.tree.k = "FunctionDef")
    => /\ call.outcome = "ok"
       /\ call.returned = NullV
       /\ hasFunction(Self.ctx, call.tree.name)

C10_FailureTextHasError ==
    (call.op = "execute" /\ call.code \in {DivideByZero, UndefinedVar, TwoPlusPlus}
        /\ call.outcome \in Failures)
    => Contains(call.result, <<"E", "r", "r", "o", "r">>)

(***************************************************************************)
(* The client of an Evaluator that applies the binary operators to literal *)
(* operands of every Value type, and the compound division to x.           *)
(***************************************************************************)
LeftOperands == {NullV, BoolV(TRUE), NumV(0), NumV(2), StrV(<<"a", "b", "c">>)}
RightOperands ==
    {NullV, BoolV(FALSE), BoolV(TRUE), NumV(0), NumV(2), StrV(Empty), StrV(<<"a", "b", "c">>),
     StrV(<<"0">>)}

DivisionOps == {"Divide", "Mod", "Div"}

\* the right operands of the logical operators: one that throws, one that
\* changes the context, and one that does neither
Throwing == BinaryOpNode(Num(1), "Divide", Num(0))
Mutating == Assign(X, Num(1))
Quiet == Num(2)

OperatorTrees ==
    {BinaryOpNode(LiteralNode(l), op, LiteralNode(r)) :
        l \in LeftOperands, op \in DivisionOps, r \in RightOperands}
    \cup {BinaryOpNode(X, "DivideAssign", LiteralNode(r)) : r \in RightOperands}
    \cup {BinaryOpNode(LiteralNode(l), op, right) :
            l \in RightOperands, op \in {"And", "Or"},
            right \in {Throwing, Mutating, Quiet}}

\* x = 2 through the Context, so that x /= r finds a bound variable
BindX ==
    /\ call' = [Called("setVariable") EXCEPT !.name = <<"x">>, !.value = NumV(2)]
    /\ SetContext(setVariable(Self.ctx, <<"x">>, NumV(2)))
    /\ UNCHANGED <<hasReturned, lastError>>

Operate ==
    \E tree \in OperatorTrees :
        \E R \in {evaluate(tree, EvalState(Self.ctx, hasReturned))} :
            /\ R.err # OutOfModel
            /\ InBounds(R.ctx.scopes)
            /\ call' = [Called("evaluate") EXCEPT
                            !.tree = tree,
                            !.returned = IF R.ok THEN R.result ELSE NullV,
                            !.error = R.err,
                            !.outcome = IF R.ok THEN "ok" ELSE "runtimeError"]
            /\ SetContext(R.ctx)
            /\ hasReturned' = R.hasReturned
            /\ UNCHANGED lastError

NextOperators ==
    \/ BindX
    \/ Clear
    \/ Operate

SpecOperators == Init /\ [][NextOperators]_vars

\* v.toNumber() is 0
CoercesToZero(v) == toNumber(v) = NumV(0)

\* the last call applied a division operator to two literals, the right one
\* coercing to 0
DividedByZero ==
    /\ call.op = "evaluate"
    /\ call.tree.k = "BinaryOp"
    /\ call.tree.op \in DivisionOps
    /\ call.tree.right.k = "Literal"
    /\ CoercesToZero(call.tree.right.value)

\* the last call was x /= r with r coercing to 0
CompoundDividedByZero ==
    /\ call.op = "evaluate"
    /\ call.tree.k = "BinaryOp"
    /\ call.tree.op = "DivideAssign"
    /\ CoercesToZero(call.tree.right.value)

\* C11: /, /=, mod and div applied to a right operand that coerces to 0
\* fail with an error that contains "zero" and produce no value, whatever
\* the left operand is; after x /= 0 the variable x has the value it had.
C11_ZeroDivisorFails ==
    /\ DividedByZero
       => /\ call.outcome = "runtimeError"
          /\ Contains(call.error, <<"z", "e", "r", "o">>)
          /\ scopes = call.before
    /\ CompoundDividedByZero
       => /\ call.outcome = "runtimeError"
          /\ scopes = call.before
          /\ hasVariable(Before, <<"x">>) => Contains(call.error, <<"z", "e", "r", "o">>)

\* x was bound, x /= r with r coercing to 0 has failed and x is as it was
C11_CompoundKeptValue ==
    /\ CompoundDividedByZero
    /\ call.tree.right.value = StrV(<<"a", "b", "c">>)
    /\ hasVariable(Before, <<"x">>)
    /\ call.outcome = "runtimeError"
    /\ getVariable(Self.ctx, <<"x">>) = NumV(2)

\* the operands of RightOperands that are truthy
Truthy == {BoolV(TRUE), NumV(2), StrV(<<"a", "b", "c">>), StrV(<<"0">>)}

\* the last call evaluated `a and b` or `a or b` with a literal a
Logical ==
    /\ call.op = "evaluate"
    /\ call.tree.k = "BinaryOp"
    /\ call.tree.op \in {"And", "Or"}

\* a determines the result, so that b is to be skipped
Determined ==
    \/ call.tree.op = "And" /\ call.tree.left.value \notin Truthy
    \/ call.tree.op = "Or" /\ call.tree.left.value \in Truthy

\* C14: `a and b` evaluates b only if a is truthy and `a or b` only if a is
\* falsy; when b is skipped the error b would raise is not raised and the
\* assignment b would make is not made, and when b is not skipped both
\* happen.
C14_ShortCircuit ==
    Logical =>
        /\ Determined
           => /\ call.outcome = "ok"
              /\ call.returned = BoolV(call.tree.op = "Or")
              /\ scopes = call.before
        /\ (~Determined /\ call.tree.right = Throwing)
           => /\ call.outcome = "runtimeError"
              /\ call.error = T_DivisionByZero
        /\ (~Determined /\ call.tree.right = Mutating)
           => /\ call.outcome = "ok"
              /\ call.returned = BoolV(TRUE)
              /\ getVariable(Self.ctx, <<"x">>) = NumV(1)

\* `0 and (1 / 0)` and the like have completed without the division error
C14_ErrorSkipped ==
    /\ Logical
    /\ Determined
    /\ call.tree.right = Throwing
    /\ call.outcome = "ok"

(***************************************************************************)
(* The client of an Interpreter that works with a variable, writes the     *)
(* Boolean keywords and tries to assign to the named constants.            *)
(***************************************************************************)
MaxCalc == 20      \* largest number the calculating client keeps in a variable

AssignFive == <<"x", " ", "=", " ", "5">>
AddThree == <<"x", " ", "+", " ", "3">>
DoubleX == <<"x", " ", "=", " ", "x", " ", "*", " ", "2">>

TrueWord == <<"t", "r", "u", "e">>
FalseWord == <<"F", "A", "L", "S", "E">>
FalseAndError == <<"f", "a", "l", "s", "e", " ", "a", "n", "d", " ", "(", "1", "/", "0", ")">>
TrueOrError == <<"t", "r", "u", "e", " ", "o", "r", " ", "(", "1", "/", "0", ")">>

\* spellings of the named constants
ConstantSpellings ==
    {<<"p", "i">>, <<"P", "I">>, <<"P", "i">>, <<"e">>, <<"E">>, <<"t", "a", "u">>, <<"T", "A", "U">>, <<"p", "h", "i">>, <<"P", "h", "i">>,
     <<"s", "q", "r", "t", "2">>, <<"S", "Q", "R", "T", "2">>, <<"s", "q", "r", "t", "3">>, <<"S", "q", "r", "t", "3">>, <<"l", "n", "2">>, <<"L", "N", "2">>, <<"l", "n", "1", "0">>, <<"L", "n", "1", "0">>}

\* attempts to bind a named constant
RebindCodes ==
    {name \o <<" ", "=", " ", "1">> : name \in ConstantSpellings}
    \cup {<<"t", "a", "u", " ", "+", "=", " ", "1">>, <<"+", "+", "p", "h", "i">>, <<"e", "-", "-">>, <<"x", " ", "=", " ", "p", "i", " ", "=", " ", "1">>}

CalcCodes ==
    {AssignFive, AddThree, DoubleX, TrueWord, FalseWord, FalseAndError, TrueOrError}
    \cup RebindCodes

\* every number kept in a variable is an integer of at most bound
Within(sc, bound) ==
    \A i \in 1..Len(sc) : \A name \in DOMAIN sc[i] :
        sc[i][name].t = "Number" =>
            (sc[i][name].d = 1 /\ Abs(sc[i][name].n) <= bound)

Calculate ==
    \E code \in CalcCodes :
        \E R \in {execute(code, Self)} :
            /\ R.outcome # "outOfModel"
            /\ Within(R.ctx.scopes, MaxCalc)
            /\ call' = [Called("execute") EXCEPT
                            !.code = code,
                            !.result = R.result,
                            !.printed = R.printed,
                            !.error = R.lastError,
                            !.outcome = R.outcome]
            /\ SetContext(R.ctx)
            /\ hasReturned' = R.hasReturned
            /\ lastError' = R.lastError

NextCalc ==
    \/ Calculate
    \/ ClearContext

SpecCalc == Init /\ [][NextCalc]_vars

\* C12: an assignment yields the assigned value and the binding persists:
\* `x = 5` yields 5 and binds x, `x + 3` yields the value of x plus 3,
\* `x = x * 2` yields and binds twice the value of x, every other call
\* leaves the binding as it was, and clearContext removes it.
C12_AssignmentPersists ==
    /\ (call.op = "execute" /\ call.code = AssignFive)
       => /\ call.outcome = "ok"
          /\ call.result = <<"5">>
          /\ getVariable(Self.ctx, NameX) = NumV(5)
    /\ (call.op = "execute" /\ call.code = AddThree /\ hasVariable(Before, NameX))
       => /\ call.outcome = "ok"
          /\ call.result = natDigits(getVariable(Before, NameX).n + 3)
    /\ (call.op = "execute" /\ call.code = DoubleX /\ hasVariable(Before, NameX))
       => /\ call.outcome = "ok"
          /\ call.result = natDigits(2 * getVariable(Before, NameX).n)
          /\ getVariable(Self.ctx, NameX) = NumV(2 * getVariable(Before, NameX).n)
    /\ (call.op = "execute" /\ call.code \notin {AssignFive, DoubleX})
       => scopes = call.before
    /\ call.op = "clearContext" => ~hasVariable(Self.ctx, NameX)

\* x = 5 was bound by an earlier call, and `x = x * 2` has yielded 10
C12_Doubled ==
    /\ call.op = "execute"
    /\ call.code = DoubleX
    /\ getVariable(Before, NameX) = NumV(5)
    /\ call.result = <<"1", "0">>
    /\ getVariable(Self.ctx, NameX) = NumV(10)

\* C15: the keywords true and false, in any letter case, are primary
\* expressions that evaluate to the Boolean values, so that
\* `false and (1/0)` and `true or (1/0)` complete without an error.
C15_BooleanKeywords ==
    /\ (call.op = "execute" /\ call.code \in {FalseAndError, TrueOrError})
       => (call.outcome = "ok" /\ lastError = Empty)
    /\ (call.op = "execute" /\ call.code = TrueWord)
       => (call.outcome = "ok" /\ call.result = <<"t", "r", "u", "e">>)
    /\ (call.op = "execute" /\ call.code = FalseWord)
       => (call.outcome = "ok" /\ call.result = <<"f", "a", "l", "s", "e">>)

\* the token sequence of a text that is one named constant
ConstantTokens(name) ==
    <<Token("Number", constants[toLower(name)], 1, 1),
      Token("EndOfFile", Empty, 1, Len(name) + 1)>>

MaxText == 4       \* longest text handed to the lexer

\* a double quote, a single quote, a backslash, a letter, a digit, a
\* character that is no operator, and a space
TextAlphabet == {"\"", "'", "\\", "a", "1", "@", " "}

Texts == UNION {[1..n -> TextAlphabet] : n \in 0..MaxText}

InitFrontEnd ==
    /\ scopes = NewContext.scopes
    /\ functions = NewContext.functions
    /\ hasReturned = FALSE
    /\ lastError = Empty
    /\ snap = << << >> >>
    /\ \E text \in Texts : call = [NoCall EXCEPT !.op = "input", !.code = text]

Tokenize ==
    /\ call.op = "input"
    /\ \E R \in {tokenize(call.code)} :
            call' = [call EXCEPT
                        !.op = "tokenize",
                        !.outcome = IF R.ok THEN "ok" ELSE "lexError",
                        !.tokens = IF R.ok THEN R.tokens ELSE << >>,
                        !.error = IF R.ok THEN Empty ELSE R.err]
    /\ UNCHANGED <<scopes, functions, hasReturned, lastError, snap>>

Parse ==
    /\ call.op = "tokenize"
    /\ call.outcome = "ok"
    /\ \E R \in {parse(call.tokens)} :
            call' = [call EXCEPT
                        !.op = "parse",
                        !.outcome = IF R.ok THEN "ok" ELSE "parseError",
                        !.parsed = IF R.ok THEN R.node ELSE NoNode,
                        !.pos = IF R.ok THEN R.pos ELSE 0,
                        !.error = IF R.ok THEN Empty ELSE R.err]
    /\ UNCHANGED <<scopes, functions, hasReturned, lastError, snap>>

NextFrontEnd ==
    \/ Tokenize
    \/ Parse

SpecFrontEnd == InitFrontEnd /\ [][NextFrontEnd]_vars

\* C16: whenever tokenize returns, the sequence is not empty, its last
\* token is EndOfFile and no earlier token is EndOfFile.
C16_EndOfFileLast ==
    (call.op = "tokenize" /\ call.outcome = "ok")
    => /\ Len(call.tokens) >= 1
       /\ call.tokens[Len(call.tokens)].type = "EndOfFile"
       /\ \A i \in 1..(Len(call.tokens) - 1) : call.tokens[i].type # "EndOfFile"

\* a text of several tokens has been tokenized
C16_SeveralTokens ==
    /\ call.op = "tokenize"
    /\ call.outcome = "ok"
    /\ Len(call.tokens) = 4
    /\ call.tokens[4].type = "EndOfFile"

\* the text from position i on leaves a string literal open, where only a
\* double quote opens a literal, a backslash inside it takes the next
\* character with it, and the next double quote closes it
RECURSIVE LeftOpen(_, _, _)
LeftOpen(text, i, inside) ==
    IF i > Len(text) THEN inside
    ELSE IF ~inside THEN LeftOpen(text, i + 1, text[i] = "\"")
    ELSE IF text[i] = "\\" THEN (i + 1 > Len(text) \/ LeftOpen(text, i + 2, TRUE))
    ELSE LeftOpen(text, i + 1, text[i] # "\"")

UnclosedString(text) == LeftOpen(text, 1, FALSE)

\* C17: tokenize fails exactly when the text contains a string literal that
\* is opened and never closed; on every other text it returns tokens.
C17_FailsOnlyUnclosed ==
    call.op = "tokenize"
    => (call.outcome = "lexError" <=> UnclosedString(call.code))

\* C18: string literals are delimited by the double quote only: a String
\* token starts at a double quote, and a single quote opens no string.
C18_DoubleQuoteOnly ==
    (call.op = "tokenize" /\ call.outcome = "ok")
    => \A i \in 1..Len(call.tokens) :
            call.tokens[i].type = "String"
            => call.code[call.tokens[i].column] = "\""

\* C20: a token sequence that contains an Invalid token is rejected by
\* parse, wherever the Invalid token stands.
C20_InvalidRejected ==
    (call.op = "parse" /\ \E i \in 1..Len(call.tokens) : call.tokens[i].type = "Invalid")
    => call.outcome = "parseError"

(***************************************************************************)
(* Arithmetic expressions: a tree of number literals, unary minus and      *)
(* + - * / ** is written out as text with parentheses only where the       *)
(* grouping of the tree needs them, and the text is handed to the lexer,   *)
(* the parser and the interpreter.                                         *)
(***************************************************************************)
MaxOps == 2        \* most operators in an expression

Operands == {Num(2), Num(3), Num(4)}
ArithmeticOps == {"Add", "Subtract", "Multiply", "Divide", "Power"}

\* the expressions of exactly n operators
RECURSIVE Expressions(_)
Expressions(n) ==
    IF n = 0 THEN Operands
    ELSE {UnaryOpNode("Negate", e) : e \in Expressions(n - 1)}
         \cup UNION {{BinaryOpNode(l, op, r) :
                        l \in Expressions(k), op \in ArithmeticOps,
                        r \in Expressions(n - 1 - k)} : k \in 0..(n - 1)}

ExpressionTrees == UNION {Expressions(n) : n \in 0..MaxOps}

\* the rung of an expression: sums, products, unary minus, powers, primaries
Rung(tree) ==
    IF tree.k = "BinaryOp"
    THEN CASE tree.op \in {"Add", "Subtract"} -> 1
           [] tree.op \in {"Multiply", "Divide"} -> 2
           [] tree.op = "Power" -> 4
    ELSE IF tree.k = "UnaryOp" THEN 3
    ELSE 5

OpText(op) ==
    CASE op = "Add" -> <<" ", "+", " ">>
      [] op = "Subtract" -> <<" ", "-", " ">>
      [] op = "Multiply" -> <<" ", "*", " ">>
      [] op = "Divide" -> <<" ", "/", " ">>
      [] op = "Power" -> <<" ", "*", "*", " ">>

\* the text of tree where an operand of at least the rung least is wanted:
\* the left operand of + - * / may be of the same rung and the right one
\* must be of a higher one, the operand of a unary minus may be a power,
\* the left operand of ** must be a primary and the right one may be a
\* power or a unary minus
RECURSIVE Show(_, _)
Show(tree, least) ==
    IF Rung(tree) < least THEN <<"(">> \o Show(tree, 1) \o <<")">>
    ELSE IF tree.k = "Literal" THEN natDigits(tree.value.n)
    ELSE IF tree.k = "UnaryOp" THEN <<"-", " ">> \o Show(tree.operand, 3)
    ELSE IF tree.op = "Power"
    THEN Show(tree.left, 5) \o OpText(tree.op) \o Show(tree.right, 3)
    ELSE Show(tree.left, Rung(tree)) \o OpText(tree.op) \o Show(tree.right, Rung(tree) + 1)

InitPrecedence ==
    /\ scopes = NewContext.scopes
    /\ functions = NewContext.functions
    /\ hasReturned = FALSE
    /\ lastError = Empty
    /\ snap = << << >> >>
    /\ \E tree \in ExpressionTrees :
            call = [NoCall EXCEPT !.op = "input", !.code = Show(tree, 1), !.tree = tree]

Interpret ==
    /\ call.op = "input"
    /\ \E R \in {execute(call.code, Self)} :
            /\ R.outcome # "outOfModel"
            /\ call' = [call EXCEPT
                            !.op = "execute",
                            !.result = R.result,
                            !.error = R.lastError,
                            !.outcome = R.outcome]
            /\ SetContext(R.ctx)
            /\ hasReturned' = R.hasReturned
            /\ lastError' = R.lastError

NextPrecedence ==
    \/ Tokenize
    \/ Parse
    \/ Interpret

SpecPrecedence == InitPrecedence /\ [][NextPrecedence]_vars

\* The arithmetic meaning of an expression tree: the fraction n/d with
\* d > 0, "error" for a division by zero, "unknown" beyond NumLimit or for
\* a power whose exponent is no natural number.
Fraction(n, d) ==
    IF Abs(n) > NumLimit \/ Abs(d) > NumLimit THEN [s |-> "unknown"]
    ELSE IF d < 0 THEN [s |-> "value", n |-> -n, d |-> -d]
    ELSE [s |-> "value", n |-> n, d |-> d]

RECURSIVE Raised(_, _)
Raised(a, k) ==
    IF k = 0 THEN Fraction(1, 1)
    ELSE IF Raised(a, k - 1).s # "value" THEN [s |-> "unknown"]
    ELSE Fraction(Raised(a, k - 1).n * a.n, Raised(a, k - 1).d * a.d)

Combined(op, a, b) ==
    IF a.s = "error" \/ b.s = "error" THEN [s |-> "error"]
    ELSE IF a.s = "unknown" \/ b.s = "unknown" THEN [s |-> "unknown"]
    ELSE CASE op = "Add" -> Fraction(a.n * b.d + b.n * a.d, a.d * b.d)
           [] op = "Subtract" -> Fraction(a.n * b.d - b.n * a.d, a.d * b.d)
           [] op = "Multiply" -> Fraction(a.n * b.n, a.d * b.d)
           [] op = "Divide" -> IF b.n = 0 THEN [s |-> "error"]
                               ELSE Fraction(a.n * b.d, a.d * b.n)
           [] op = "Power" -> IF b.d = 1 /\ b.n >= 0 /\ b.n <= 16
                              THEN Raised(a, b.n) ELSE [s |-> "unknown"]

RECURSIVE Meaning(_)
Meaning(tree) ==
    IF tree.k = "Literal" THEN Fraction(tree.value.n, 1)
    ELSE IF tree.k = "UnaryOp"
    THEN Combined("Subtract", Fraction(0, 1), Meaning(tree.operand))
    ELSE Combined(tree.op, Meaning(tree.left), Meaning(tree.right))

IntegerText(n) == IF n < 0 THEN <<"-">> \o natDigits(-n) ELSE natDigits(n)

\* the text that execute returns for an expression of meaning m
Agrees(m) ==
    CASE m.s = "error" -> call.outcome = "runtimeError"
      [] m.s = "unknown" -> TRUE
      [] m.s = "value" ->
            /\ call.outcome = "ok"
            /\ m.n % m.d = 0 => call.result = IntegerText(m.n \div m.d)

\* C13: an expression over number literals, parentheses, unary minus and
\* + - * / ** is parsed into the tree that the precedence ladder gives:
\* * and / bind tighter than + and -, ** binds tighter than * and / and
\* than a unary minus on its left, + - * / group to the left and ** to the
\* right; so 2 + 3 * 4 is 14, (2 + 3) * 4 is 20 and 2 ** 3 ** 2 is 512.
C13_PrecedenceLadder ==
    /\ call.op = "tokenize" => call.outcome = "ok"
    /\ call.op = "parse" => (call.outcome = "ok" /\ call.parsed = call.tree)
    /\ call.op = "execute" => Agrees(Meaning(call.tree))
    /\ (call.op = "execute" /\ call.code = <<"2", " ", "+", " ", "3", " ", "*", " ", "4">>) => call.result = <<"1", "4">>
    /\ (call.op = "execute" /\ call.code = <<"(", "2", " ", "+", " ", "3", ")", " ", "*", " ", "4">>) => call.result = <<"2", "0">>
    /\ (call.op = "execute" /\ call.code = <<"2", " ", "*", "*", " ", "3", " ", "*", "*", " ", "2">>) => call.result = <<"5", "1", "2">>

\* 2 ** 3 ** 2 has been parsed as 2 ** (3 ** 2)
C13_PowerOfPower ==
    /\ call.op = "parse"
    /\ call.code = <<"2", " ", "*", "*", " ", "3", " ", "*", "*", " ", "2">>
    /\ call.parsed = BinaryOpNode(Num(2), "Power", BinaryOpNode(Num(3), "Power", Num(2)))

(***************************************************************************)
(* Syntax checking: a statement text is handed to the lexer and the        *)
(* parser, to Interpreter::isValidSyntax and to Interpreter::execute.      *)
(***************************************************************************)
AssignTexts == {<<" ", "=", " ">>, <<" ", "+", "=", " ">>, <<" ", "-", "=", " ">>, <<" ", "*", "=", " ">>, <<" ", "/", "=", " ">>}

\* left sides that are no identifier
BadTargets == {<<"1">>, <<"(", "a", " ", "+", " ", "b", ")">>, <<"\"", "s", "\"">>, <<"-", "a">>, <<"a", " ", "+", " ", "1">>, <<"f", "(", "1", ")">>}

BadTargetCodes ==
    {target \o op \o value : target \in BadTargets, op \in AssignTexts, value \in {<<"2">>, <<"3">>}}

GoodTargetCodes ==
    {<<"a">> \o op \o value : op \in AssignTexts, value \in {<<"2">>, <<"3">>}}

\* complete statements, and tokens to follow them
Statements == {<<"2">>, <<"x", " ", "=", " ", "1">>, <<"(", "1", ")">>, <<"x">>}
Leftovers == {<<" ", "3">>, <<" ", ")">>, <<" ", "x">>, <<" ", "}">>, <<" ", ",">>}

TrailingCodes == {statement \o rest : statement \in Statements, rest \in Leftovers}

SyntaxCodes == BadTargetCodes \cup GoodTargetCodes \cup Statements \cup TrailingCodes

InitSyntax ==
    /\ scopes = NewContext.scopes
    /\ functions = NewContext.functions
    /\ hasReturned = FALSE
    /\ lastError = Empty
    /\ snap = << << >> >>
    /\ \E code \in SyntaxCodes : call = [NoCall EXCEPT !.op = "input", !.code = code]

IsValidSyntax ==
    /\ call.op = "input"
    /\ \E valid \in {isValidSyntax(call.code)} :
            call' = [call EXCEPT
                        !.op = "isValidSyntax",
                        !.outcome = IF valid THEN "valid" ELSE "invalid"]
    /\ UNCHANGED <<scopes, functions, hasReturned, lastError, snap>>

NextSyntax ==
    \/ Tokenize
    \/ Parse
    \/ IsValidSyntax
    \/ Interpret

SpecSyntax == InitSyntax /\ [][NextSyntax]_vars

\* C21: an assignment whose left side is not an identifier is rejected by
\* the parser with an invalid-assignment-target error, and isValidSyntax
\* is false for it.
C21_BadTargetRejected ==
    call.code \in BadTargetCodes
    => /\ call.op = "parse"
          => (call.outcome = "parseError" /\ Contains(call.error, <<"a", "s", "s", "i", "g", "n", "m", "e", "n", "t", " ", "t", "a", "r", "g", "e", "t">>))
       /\ call.op = "isValidSyntax" => call.outcome = "invalid"

\* C29: parse returns a tree only when it has consumed the whole token
\* sequence: its position is then at the EndOfFile token, and a text with
\* tokens left over after a complete statement is a parse error for which
\* isValidSyntax is false.
C29_WholeInputConsumed ==
    /\ (call.op = "parse" /\ call.outcome = "ok")
       => call.tokens[call.pos].type = "EndOfFile"
    /\ (call.op = "parse" /\ call.code \in TrailingCodes)
       => call.outcome = "parseError"
    /\ (call.op = "isValidSyntax" /\ call.code \in TrailingCodes)
       => call.outcome = "invalid"

(***************************************************************************)
(* Clearing: the Context operations together with                          *)
(* Interpreter::clearContext.                                              *)
(***************************************************************************)
\* the characters of names in the order of their codes
CharOrder == DigitSeq \o UpperSeq \o <<"_">> \o LowerSeq

charRank(c) == CHOOSE i \in 1..Len(CharOrder) : CharOrder[i] = c

\* std::string operator<
RECURSIVE stringLess(_, _)
stringLess(a, b) ==
    IF b = << >> THEN FALSE
    ELSE IF a = << >> THEN TRUE
    ELSE IF a[1] # b[1] THEN charRank(a[1]) < charRank(b[1])
    ELSE stringLess(Tail(a), Tail(b))

\* std::sort of a set of strings
RECURSIVE sorted(_)
sorted(S) ==
    IF S = {} THEN << >>
    ELSE <<Only({s \in S : \A t \in S \ {s} : stringLess(s, t)})>>
         \o sorted(S \ {Only({s \in S : \A t \in S \ {s} : stringLess(s, t)})})

\* Context::getIdentifiers: the names of all scopes and of the functions,
\* each once, sorted
getIdentifiers(ctx) ==
    sorted(UNION {DOMAIN ctx.scopes[i] : i \in 1..Len(ctx.scopes)} \cup DOMAIN ctx.functions)

NextClear ==
    \/ NextContext
    \/ ClearContext

SpecClear == Init /\ [][NextClear]_vars

\* C22: after Context::clear and after Interpreter::clearContext there is
\* exactly one scope, it is empty, and the function table is empty,
\* whatever was there before; getIdentifiers is empty and every name is
\* undefined.
C22_ClearLeavesOneEmptyScope ==
    call.op \in {"clear", "clearContext"}
    => /\ Len(scopes) = 1
       /\ DOMAIN scopes[1] = {}
       /\ DOMAIN functions = {}
       /\ getIdentifiers(Self.ctx) = << >>
       /\ \A name \in Names : ~hasVariable(Self.ctx, name)
       /\ \A name \in FunctionNames : ~hasFunction(Self.ctx, name)

\* clear has been called at depth three with x bound in two scopes
C22_ClearedDeep ==
    /\ call.op = "clear"
    /\ Len(call.before) = 3
    /\ NameX \in DOMAIN call.before[1]
    /\ NameX \in DOMAIN call.before[3]
    /\ getScopeDepth(Self.ctx) = 1

(***************************************************************************)
(* Control flow, increments, comparisons and built-in functions: the       *)
(* client of an Evaluator that binds x and evaluates trees of these kinds. *)
(***************************************************************************)
Y == IdentifierNode(<<"y">>)

\* while (x < 3) x = x + 1, and a loop whose body never runs
CountUp == WhileNode(BinaryOpNode(X, "Less", Num(3)), Increment(X))
NeverRuns == WhileNode(Num(0), Num(4))

WhileTrees == {CountUp, NeverRuns}

\* for (x = 0; x < 2; x = x + 1) { }, and for (x = 0; ; x = x + 1) return x
CountTwice == ForNode(Assign(X, Num(0)), BinaryOpNode(X, "Less", Num(2)), Increment(X),
                      BlockNode(<< >>))
ReturnAtOnce == ForNode(Assign(X, Num(0)), NoNode, Increment(X), ReturnNode(X))

ForTrees == {CountTwice, ReturnAtOnce}

\* a return of 3 that is followed by an assignment to y: in the same block,
\* after a block with the return inside an if, after a loop with the
\* return in its body, and in a loop around a block around such a loop
ReturnThree == ReturnNode(Num(3))
ReturnInBlock == BlockNode(<<Assign(X, Num(1)), ReturnThree, Assign(Y, Num(1))>>)
ReturnInIf ==
    BlockNode(<<BlockNode(<<IfNode(Num(1), ReturnThree, NoNode), Assign(Y, Num(1))>>),
                Assign(Y, Num(1))>>)
ReturnInWhile ==
    BlockNode(<<WhileNode(Num(1), BlockNode(<<ReturnThree, Assign(Y, Num(1))>>)),
                Assign(Y, Num(1))>>)
ReturnInLoops ==
    WhileNode(Num(1),
              BlockNode(<<WhileNode(Num(1), IfNode(Num(0), Num(1), ReturnThree)),
                          Assign(Y, Num(1))>>))

ReturnTrees == {ReturnThree, ReturnInBlock, ReturnInIf, ReturnInWhile, ReturnInLoops}

StepOps == {"PreIncrement", "PostIncrement", "PreDecrement", "PostDecrement"}
StepOperands == {X, Num(1), BinaryOpNode(X, "Add", Num(1)), UnaryOpNode("Negate", X)}

StepTrees == {UnaryOpNode(op, operand) : op \in StepOps, operand \in StepOperands}

\* values of every variant
Variants ==
    {NullV, BoolV(FALSE), BoolV(TRUE), NumV(0), NumV(1),
     StrV(Empty), StrV(<<"a", "b", "c">>), StrV(<<"x", "y", "z">>), StrV(<<"1">>)}

EqualityTrees ==
    {BinaryOpNode(LiteralNode(l), op, LiteralNode(r)) :
        l \in Variants, op \in {"Equal", "NotEqual"}, r \in Variants}

\* Interpreter::getBuiltinFunctions
getBuiltinFunctions ==
    <<<<"s", "i", "n">>, <<"c", "o", "s">>, <<"t", "a", "n">>, <<"a", "s", "i", "n">>, <<"a", "c", "o", "s">>, <<"a", "t", "a", "n">>,
      <<"l", "o", "g">>, <<"l", "o", "g", "1", "0">>, <<"l", "o", "g", "2">>, <<"l", "n">>, <<"e", "x", "p">>,
      <<"s", "q", "r", "t">>, <<"c", "b", "r", "t">>, <<"r", "o", "o", "t">>,
      <<"p", "o", "w">>, <<"a", "b", "s">>,
      <<"m", "i", "n">>, <<"m", "a", "x">>, <<"c", "e", "i", "l">>, <<"f", "l", "o", "o", "r">>, <<"r", "o", "u", "n", "d">>>>

\* the number of arguments of a built-in function
Arity(name) == IF name \in {<<"r", "o", "o", "t">>, <<"p", "o", "w">>, <<"m", "i", "n">>, <<"m", "a", "x">>} THEN 2 ELSE 1

BuiltinCalls ==
    {FunctionCallNode(IdentifierNode(getBuiltinFunctions[i]),
                      [k \in 1..Arity(getBuiltinFunctions[i]) |-> Num(n)]) :
        i \in 1..Len(getBuiltinFunctions), n \in {0, 1}}

ControlTrees ==
    WhileTrees \cup ForTrees \cup ReturnTrees \cup StepTrees \cup EqualityTrees
    \cup BuiltinCalls

Run ==
    \E tree \in ControlTrees :
        \E R \in {evaluate(tree, EvalState(Self.ctx, hasReturned))} :
            /\ R.err # OutOfModel
            /\ InBounds(R.ctx.scopes)
            /\ call' = [Called("evaluate") EXCEPT
                            !.tree = tree,
                            !.returned = IF R.ok THEN R.result ELSE NullV,
                            !.error = R.err,
                            !.outcome = IF R.ok THEN "ok" ELSE "runtimeError"]
            /\ SetContext(R.ctx)
            /\ hasReturned' = R.hasReturned
            /\ UNCHANGED lastError

NextControl ==
    \/ BindX
    \/ Clear
    \/ Run

SpecControl == Init /\ [][NextControl]_vars

\* the number that x was bound to when the call began
XBefore == getVariable(Before, NameX)

\* C23: the value of a While node is the value of its body in the last
\* iteration, or Null if the body never ran; it is never the value of the
\* condition that ended the loop.
C23_WhileValue ==
    /\ (call.op = "evaluate" /\ call.tree = NeverRuns)
       => (call.outcome = "ok" /\ call.returned = NullV)
    /\ (call.op = "evaluate" /\ call.tree = CountUp /\ hasVariable(Before, NameX))
       => /\ call.outcome = "ok"
          /\ call.returned = IF XBefore.n < 3 THEN NumV(3) ELSE NullV

\* C24: a For node runs its init once and then repeats condition, body,
\* stop on return, update: x counts from 0 to 2 in the first loop, and in
\* the second the body returns x = 0 before any update.
C24_ForOrder ==
    /\ (call.op = "evaluate" /\ call.tree = CountTwice)
       => (call.outcome = "ok" /\ getVariable(Self.ctx, NameX) = NumV(2))
    /\ (call.op = "evaluate" /\ call.tree = ReturnAtOnce)
       => /\ call.outcome = "ok"
          /\ call.returned = NumV(0)
          /\ getVariable(Self.ctx, NameX) = NumV(0)

\* C25: once a Return has executed, no later statement of its block nor of
\* any enclosing Block or While body is evaluated, also when the Return is
\* nested in an If or a While, and the outermost node yields the returned
\* value: every tree yields 3, the assignments to y after the return never
\* run, and the assignment to x before it does.
C25_ReturnStopsAll ==
    /\ (call.op = "evaluate" /\ call.tree \in ReturnTrees)
       => /\ call.outcome = "ok"
          /\ call.returned = NumV(3)
          /\ ~hasVariable(Self.ctx, NameY)
    /\ (call.op = "evaluate" /\ call.tree = ReturnInBlock)
       => getVariable(Self.ctx, NameX) = NumV(1)

\* the return inside two loops and a block has ended the evaluation with 3
C25_LoopsLeft ==
    /\ call.op = "evaluate"
    /\ call.tree = ReturnInLoops
    /\ call.returned = NumV(3)
    /\ ~hasVariable(Self.ctx, NameY)

\* C26: whenever a top-level evaluate call has returned to its caller, the
\* return flag is false, also when the tree executed a Return.
C26_FlagDrained ==
    call.op = "evaluate" => hasReturned = FALSE

\* C27: for x bound to the number n, ++x and x++ leave x = n + 1 and --x
\* and x-- leave x = n - 1, the prefix forms yield the new value and the
\* postfix forms yield n; on an operand that is not an identifier each of
\* the four fails and changes no variable.
C27_StepOperators ==
    (call.op = "evaluate" /\ call.tree \in StepTrees)
    => /\ (call.tree.operand = X /\ hasVariable(Before, NameX))
          => /\ call.outcome = "ok"
             /\ getVariable(Self.ctx, NameX) =
                    NumV(XBefore.n + (IF call.tree.op \in {"PreIncrement", "PostIncrement"}
                                      THEN 1 ELSE -1))
             /\ call.returned = IF call.tree.op \in {"PreIncrement", "PreDecrement"}
                                THEN getVariable(Self.ctx, NameX) ELSE XBefore
       /\ call.tree.operand # X
          => (call.outcome = "runtimeError" /\ scopes = call.before)

\* x++ has yielded 2 and left x = 3
C27_PostIncrementYieldsOld ==
    /\ call.op = "evaluate"
    /\ call.tree = UnaryOpNode("PostIncrement", X)
    /\ XBefore = NumV(2)
    /\ call.returned = NumV(2)
    /\ getVariable(Self.ctx, NameX) = NumV(3)

\* C28: == and != apply the equality of values: operands of different
\* variants are never equal, and two strings are equal exactly when their
\* texts are the same.
C28_ValueEquality ==
    (call.op = "evaluate" /\ call.tree \in EqualityTrees)
    => /\ call.outcome = "ok"
       /\ call.returned =
            BoolV((call.tree.op = "Equal")
                  <=> valueEquals(call.tree.left.value, call.tree.right.value))

\* C30: every name of getBuiltinFunctions is dispatched as a built-in:
\* called with its number of arguments it never fails as an unknown
\* function.
C30_BuiltinsDispatched ==
    (call.op = "evaluate" /\ call.tree \in BuiltinCalls)
    => ~Contains(call.error, T_UnknownFunction)

=============================================================================
